---- MODULE Spec2Model ----
(***************************************************************************)
(* GopherMark: the staged-mutation / atomic-commit subsystem.              *)
(*                                                                         *)
(* The model follows internal/staging/staging.go (StagingDB) and the       *)
(* callers of it in internal/ui/app.go.  A file is modelled by its logical  *)
(* content: the rows of moz_bookmarks and moz_places it stores, the marker  *)
(* Partial for a truncated / half-written copy, or Absent.                  *)
(***************************************************************************)
EXTENDS Integers, Sequences, FiniteSets, TLC

VARIABLES
    origFile,       \* content at s.originalPath (m.dbPath)
    stagingFile,    \* content at s.stagingPath (gophermark-staging-<pid>.sqlite)
    backupFile,     \* content at s.originalPath + ".backup"
    conn,           \* "nil": no StagingDB held; else state of s.conn: "open" / "closed"
    pc,             \* position of the caller: "idle", a step of Commit, or "quit"
    goos,           \* runtime.GOOS of the build
    procs,          \* the browser process currently running ("none" if none)
    commitErr,      \* what the last Commit of the held store returned
    mutErr,         \* what the last mutation call returned
    staged,         \* number of mutation calls made so far
    prevErr,        \* history: what the Commit before the running one returned
    guardSeen,      \* history: result of isBrowserRunning in the running Commit
    queryErr,       \* history: the process-list command of the running Commit failed
    restoreErr,     \* history: the restore rename of the running Commit failed
    removeErr,      \* history: the backup removal of the running Commit failed
    origAtCreate,   \* history: origFile when the held store was created
    origAtCommit,   \* history: origFile when the running Commit was called
    stagedAtCommit, \* history: stagingFile when the running Commit was called
    wroteBySwap,    \* history: the swap rename replaced origFile for the held store
    wroteByRestore, \* history: a restore rename replaced origFile for the held store
    lastErr,        \* history: what the last failed CreateStaging, or the last
                    \* Rollback / Close, returned ("none" once a store is created)
    lastCall,       \* history: the last mutation operation called, with its arguments
    heap,           \* the models.Bookmark objects in memory (m.root is heap[root])
    currentFolder,  \* m.currentFolder, a handle into heap (0: nil)
    bookmarks,      \* m.bookmarks, handles into heap
    selectedBookmarks,  \* m.selectedBookmarks, the ids selected
    listCursor,     \* m.listCursor (counted from 0)
    activePane,     \* m.activePane
    editMode,       \* m.editMode
    hasPendingChanges,  \* m.hasPendingChanges
    lastKey,        \* history: the last key handled and the store calls it made
    editStart,      \* history: the bookmark under edit as it was when e was pressed
    deletedNodes,   \* history: the bookmarks whose DeleteBookmark call returned nil
    treeNodes,      \* m.treeNodes, the folders the tree pane shows
    treeCursor,     \* m.treeCursor (counted from 0)
    expandedFolders,    \* m.expandedFolders, the ids mapped to true
    inSearchMode,   \* m.inSearchMode
    searchResults,  \* m.searchResults, handles into heap
    auditInProgress,    \* m.auditInProgress
    dedupScanning,  \* m.dedupScanning
    dedupGroups,    \* m.dedupGroups, the group summaries shown
    auditRunning,   \* number of runAudit commands running
    auditMsgs,      \* number of auditCompleteMsg on their way to Update
    auditSeen,      \* history: the results the last audit that ran has received
    auditResults,   \* m.auditResults, by bookmark id
    auditReport,    \* the number of dead links in the completion message shown
                    \* last (-1: none shown)
    dedupRunning,   \* number of runDedup commands running
    dedupMsgs,      \* the dedupResultMsg on their way to Update
    scans,          \* number of audits and duplicate scans started so far
    apc,            \* position of the goroutine started by AuditAll ("idle": not called)
    collected,      \* its local bookmarks, the nodes collected
    jobs,           \* content of the channel jobs
    jobsClosed,     \* close(jobs) has been executed
    wg,             \* counter of the WaitGroup
    wpc,            \* position of each worker ("none": not started)
    wjob,           \* the bookmark a worker has received (0: none)
    wres,           \* the result a worker has computed
    results,        \* a.results, by bookmark id
    resultChan,     \* content of the channel resultChan
    resultClosed,   \* close(resultChan) has been executed
    cpc,            \* position of the consumer of resultChan
    received,       \* history: the results the consumer has received
    ctxDone         \* the context handed to AuditAll is cancelled

vars == <<origFile, stagingFile, backupFile, conn, pc, goos, procs, commitErr,
          mutErr, staged, prevErr, guardSeen, queryErr, restoreErr, removeErr, origAtCreate, origAtCommit,
          stagedAtCommit, wroteBySwap, wroteByRestore, lastErr, lastCall,
          heap, currentFolder, bookmarks, selectedBookmarks, listCursor, activePane,
          editMode, hasPendingChanges, lastKey, editStart, deletedNodes,
          treeNodes, treeCursor, expandedFolders, inSearchMode, searchResults,
          auditInProgress, dedupScanning, dedupGroups, auditRunning, auditMsgs,
          auditSeen, auditResults, auditReport, dedupRunning, dedupMsgs, scans,
          apc, collected, jobs, jobsClosed, wg, wpc, wjob, wres, results, resultChan,
          resultClosed, cpc, received, ctxDone>>

fileVars == <<origFile, stagingFile, backupFile>>
envVars  == <<goos, procs>>
callVars == <<prevErr, guardSeen, queryErr, restoreErr, removeErr, origAtCommit,
              stagedAtCommit>>
lifeVars == <<origAtCreate, wroteBySwap, wroteByRestore>>
histVars == <<callVars, lifeVars>>
\* the fields of the UI's Model
navVars == <<treeNodes, treeCursor, expandedFolders, inSearchMode, searchResults>>
uiVars == <<heap, currentFolder, bookmarks, selectedBookmarks, listCursor, activePane,
            editMode, hasPendingChanges, lastKey, editStart, deletedNodes, navVars>>
\* what the caller of the store keeps
\* the link audit and the duplicate scan: the fields of the Model they use and
\* the commands they run
scanVars == <<auditInProgress, dedupScanning, dedupGroups, auditRunning, auditMsgs,
              auditSeen, auditResults, auditReport, dedupRunning, dedupMsgs, scans>>
\* the Auditor, the goroutines of AuditAll and the consumer of its channel
auditVars == <<apc, collected, jobs, jobsClosed, wg, wpc, wjob, wres, results, resultChan,
               resultClosed, cpc, received, ctxDone>>
collabVars == <<scanVars, auditVars>>
callerVars == <<lastCall, uiVars, collabVars>>
\* the store, the files and the browser
storeVars == <<fileVars, conn, pc, envVars, commitErr, mutErr, staged, histVars, lastErr>>

----------------------------------------------------------------------------
(* Bounds of the model.  Every mutation call counts towards MaxStaged, also
   one that fails. *)

MaxStaged  == 1     \* mutation calls in one run of the commit protocol
MaxCalls   == 2     \* mutation calls in one run of the mutation operations
MaxRowId   == 5     \* no row is inserted once a row has this id
MaxPlaceId == 3     \* ... or once a URL record has this id

Titles    == {"t0", "t1"}
NewTitles == {"t1"}                 \* titles of added bookmarks in the commit protocol
Urls      == {"u0", "u1"}
Times     == {1}                    \* values returned by currentMicroseconds()
Positions == {0, 1}                 \* newPosition arguments of MoveBookmark

----------------------------------------------------------------------------
(* Content of files *)

Absent    == [kind |-> "absent"]
Partial   == [kind |-> "partial"]
DBFile(d) == [kind |-> "db", db |-> d]      \* a complete database file

IsDB(f) == f.kind = "db"

TypeBookmark == 1
TypeFolder   == 2
TypeSeparator == 3
NULL == 0

Max(S) == CHOOSE x \in S : \A y \in S : y <= x

\* LastInsertId of an INTEGER PRIMARY KEY table: one more than the largest rowid
NextRowId(rows) == IF rows = {} THEN 1 ELSE 1 + Max({r.id : r \in rows})

InitialDB ==
    [bookmarks |->
        {[id |-> 1, type |-> TypeFolder, fk |-> NULL, parent |-> 0, position |-> 0,
          title |-> "", dateAdded |-> 0, lastModified |-> 0, guid |-> "root________"],
         [id |-> 2, type |-> TypeFolder, fk |-> NULL, parent |-> 1, position |-> 0,
          title |-> "menu", dateAdded |-> 0, lastModified |-> 0, guid |-> "menu________"],
         [id |-> 3, type |-> TypeBookmark, fk |-> 1, parent |-> 2, position |-> 0,
          title |-> "t0", dateAdded |-> 0, lastModified |-> 0, guid |-> "rand"]},
     places |->
        {[id |-> 1, url |-> "u0", title |-> "t0", last_visit_date |-> 0]}]

----------------------------------------------------------------------------
(* The SQL statements of the mutation operations, as functions on a database *)

\* UPDATE moz_bookmarks SET title = ?, lastModified = ? WHERE id = ?
SqlUpdateTitle(db, bookmarkID, newTitle, now) ==
    [db EXCEPT !.bookmarks =
        {IF r.id = bookmarkID
            THEN [r EXCEPT !.title = newTitle, !.lastModified = now]
            ELSE r : r \in db.bookmarks}]

\* UPDATE moz_places SET url = ?, last_visit_date = ? WHERE id = ?
SqlUpdateURL(db, placeID, newURL, now) ==
    [db EXCEPT !.places =
        {IF p.id = placeID
            THEN [p EXCEPT !.url = newURL, !.last_visit_date = now]
            ELSE p : p \in db.places}]

\* (mutant) the URL record of the row is deleted with it
SqlDelete_WithPlace(db, bookmarkID) ==
    [bookmarks |-> {r \in db.bookmarks : r.id # bookmarkID},
     places    |-> {p \in db.places :
                      \A r \in db.bookmarks : r.id = bookmarkID => p.id # r.fk}]

\* DELETE FROM moz_bookmarks WHERE id = ?
SqlDelete(db, bookmarkID) ==
    [db EXCEPT !.bookmarks = {r \in db.bookmarks : r.id # bookmarkID}]

\* UPDATE moz_bookmarks SET parent = ?, position = ?, lastModified = ? WHERE id = ?
SqlMove(db, bookmarkID, newParentID, newPosition, now) ==
    [db EXCEPT !.bookmarks =
        {IF r.id = bookmarkID
            THEN [r EXCEPT !.parent = newParentID, !.position = newPosition,
                           !.lastModified = now]
            ELSE r : r \in db.bookmarks}]

\* (mutant) the number of children is taken for the last position
MaxPositionOf_Count(db, parentID) ==
    Cardinality({x \in db.bookmarks : x.parent = parentID}) - 1

\* SELECT COALESCE(MAX(position), -1) FROM moz_bookmarks WHERE parent = ?
MaxPositionOf(db, parentID) ==
    LET ps == {r.position : r \in {x \in db.bookmarks : x.parent = parentID}}
    IN  IF ps = {} THEN -1 ELSE Max(ps)

\* (mutant) the lookup never finds a record
PlaceWithURL_Never(db, url) == NULL

\* SELECT id FROM moz_places WHERE url = ?  (the first row found; 0 if none)
PlaceWithURL(db, url) ==
    LET ids == {p.id : p \in {x \in db.places : x.url = url}}
    IN  IF ids = {} THEN NULL ELSE CHOOSE i \in ids : \A j \in ids : i <= j

\* the steps of AddBookmark that can return an error
AddFailures == {"begin", "place_insert", "position_query", "bookmark_insert", "commit"}
\* ... and the lookup of the URL record, whose error is taken for "not found"
AddOutcomes == {"none", "place_query"} \cup AddFailures

\* the URL record AddBookmark uses: the one found, unless Scan returned an error
PlaceFound(db, url, failAt) ==
    IF failAt = "place_query" THEN NULL ELSE PlaceWithURL(db, url)

\* the statements of AddBookmark's transaction, all of them executed
SqlAddBookmark(db, parentID, title, url, now, failAt) ==
    LET found   == PlaceFound(db, url, failAt)
        placeID == IF found # NULL THEN found ELSE NextRowId(db.places)
        places1 == IF found # NULL THEN db.places
                   ELSE db.places \cup
                        {[id |-> placeID, url |-> url, title |-> title,
                          last_visit_date |-> now]}
        row     == [id |-> NextRowId(db.bookmarks), type |-> TypeBookmark,
                    fk |-> placeID, parent |-> parentID,
                    position |-> MaxPositionOf(db, parentID) + 1, title |-> title,
                    dateAdded |-> now, lastModified |-> now, guid |-> "rand"]
    IN  [bookmarks |-> db.bookmarks \cup {row}, places |-> places1]

\* AddBookmark returns an error: a step fails (the insert of the URL record
\* is a step only if none was found)
AddFails(db, url, failAt) ==
    /\ failAt \in AddFailures
    /\ failAt = "place_insert" => PlaceWithURL(db, url) = NULL

\* what the transaction of AddBookmark has written when the step failAt fails:
\* nothing, the URL record, or both rows
TxWritten(db, parentID, title, url, now, failAt) ==
    LET all       == SqlAddBookmark(db, parentID, title, url, now, failAt)
        withPlace == [db EXCEPT !.places = all.places]
    IN  IF failAt \in {"begin", "place_insert"} THEN db
        ELSE IF failAt \in {"position_query", "bookmark_insert"} THEN withPlace
        ELSE all

\* (mutant) no rollback: what the transaction wrote before the failing step stays
TxAddBookmark_NoRollback(db, parentID, title, url, now, failAt) ==
    [db  |-> IF AddFails(db, url, failAt)
             THEN TxWritten(db, parentID, title, url, now, failAt)
             ELSE SqlAddBookmark(db, parentID, title, url, now, failAt),
     err |-> AddFails(db, url, failAt)]

\* AddBookmark as <<database afterwards, error returned>>: tx.Commit() makes
\* the writes visible; a return before it runs the deferred tx.Rollback()
TxAddBookmark(db, parentID, title, url, now, failAt) ==
    [db  |-> IF AddFails(db, url, failAt) THEN db
             ELSE SqlAddBookmark(db, parentID, title, url, now, failAt),
     err |-> AddFails(db, url, failAt)]

\* the rows FindOrCreateScratchFolder looks for (the first row found)
ScratchFolders(db) ==
    {r.id : r \in {x \in db.bookmarks : x.type = TypeFolder /\ x.title = "Scratch"}}
MenuFolders(db) ==
    {r.id : r \in {x \in db.bookmarks : x.guid = "menu________"}}
First(ids) == CHOOSE i \in ids : \A j \in ids : i <= j

\* the steps of FindOrCreateScratchFolder that can return an error
ScratchFailures == {"scratch_query", "menu_query", "position_query", "insert"}

\* (mutant) the folder is inserted without looking for one
SqlFindOrCreateScratchFolder_NoLookup(db, now, failAt) ==
    LET menuID == First(MenuFolders(db))
        row    == [id |-> NextRowId(db.bookmarks), type |-> TypeFolder, fk |-> NULL,
                   parent |-> menuID, position |-> MaxPositionOf(db, menuID) + 1,
                   title |-> "Scratch", dateAdded |-> now, lastModified |-> now,
                   guid |-> "rand"]
    IN  IF failAt # "none" \/ MenuFolders(db) = {}
        THEN [db |-> db, id |-> 0, err |-> TRUE]
        ELSE [db |-> [db EXCEPT !.bookmarks = @ \cup {row}], id |-> row.id,
              err |-> FALSE]

\* FindOrCreateScratchFolder as <<database afterwards, id returned, error>>
SqlFindOrCreateScratchFolder(db, now, failAt) ==
    LET menuID == First(MenuFolders(db))
        row    == [id |-> NextRowId(db.bookmarks), type |-> TypeFolder, fk |-> NULL,
                   parent |-> menuID, position |-> MaxPositionOf(db, menuID) + 1,
                   title |-> "Scratch", dateAdded |-> now, lastModified |-> now,
                   guid |-> "rand"]
    IN  IF failAt = "scratch_query" THEN [db |-> db, id |-> 0, err |-> TRUE]
        ELSE IF ScratchFolders(db) # {}
             THEN [db |-> db, id |-> First(ScratchFolders(db)), err |-> FALSE]
        ELSE IF failAt = "menu_query" \/ MenuFolders(db) = {}
             THEN [db |-> db, id |-> 0, err |-> TRUE]
        ELSE IF failAt \in {"position_query", "insert"}
             THEN [db |-> db, id |-> 0, err |-> TRUE]
        ELSE [db |-> [db EXCEPT !.bookmarks = @ \cup {row}], id |-> row.id,
              err |-> FALSE]

----------------------------------------------------------------------------
(* Files *)

CopyOutcomes == {"open_err", "create_err", "copy_err", "sync_err", "ok"}

\* copyFile(src, dst): the error it returns, for the step that fails (or none)
copyFileErr(srcContent, o) == srcContent = Absent \/ o # "ok"

\* copyFile(src, dst): what is at dst afterwards.  os.Create truncates dst;
\* a failing io.Copy leaves it half-written; a failing Sync leaves all bytes.
copyFileDst(srcContent, dstContent, o) ==
    IF srcContent = Absent \/ o \in {"open_err", "create_err"} THEN dstContent
    ELSE IF o = "copy_err" THEN Partial
    ELSE srcContent

\* os.Remove(path): what is at path afterwards
RemoveFile(content, ok) == IF ok THEN Absent ELSE content

----------------------------------------------------------------------------
(* Liveness guard *)

GOOS      == {"linux", "windows", "plan9"}
Browsers  == {"firefox"}                 \* the browsers that start and stop

\* the text a process-list command prints: whether it is empty, and which of
\* the names looked for occur in it (strings.Contains on the lowered text)
PgrepOutput(p)    == [len |-> IF p = "none" THEN 0 ELSE 1, names |-> {}]   \* pids only
TasklistOutput(p) == [len |-> 1, names |-> IF p = "none" THEN {} ELSE {p}]

detectWhichBrowser(output) ==
    IF "librewolf" \in output.names THEN "LibreWolf"
    ELSE IF "firefox" \in output.names THEN "Firefox"
    ELSE "Browser"

\* cmd.Output() returns an error: the command could not be run (cmdFails), or
\* it exited with a status other than 0, as pgrep does when nothing matches
CmdErr(os, cmdFails, p) == cmdFails \/ (os \in {"linux", "darwin"} /\ p = "none")

\* a guard that takes a failed query for a running browser
isBrowserRunning_FailClosed(os, cmdFails, p) ==
    IF os \notin {"linux", "darwin", "windows"} THEN <<FALSE, "">>
    ELSE IF CmdErr(os, cmdFails, p) THEN <<p # "none", "">>
    ELSE IF os \in {"linux", "darwin"}
         THEN <<PgrepOutput(p).len > 0, detectWhichBrowser(PgrepOutput(p))>>
    ELSE <<"firefox" \in TasklistOutput(p).names, "firefox">>

\* isBrowserRunning() as <<running, process>>
isBrowserRunning(os, cmdFails, p) ==
    IF os \notin {"linux", "darwin", "windows"} THEN <<FALSE, "">>
    ELSE IF CmdErr(os, cmdFails, p) THEN <<FALSE, "">>
    ELSE IF os \in {"linux", "darwin"}
         THEN <<PgrepOutput(p).len > 0, detectWhichBrowser(PgrepOutput(p))>>
    ELSE IF "firefox" \in TasklistOutput(p).names THEN <<TRUE, "firefox">>
    ELSE IF "librewolf" \in TasklistOutput(p).names THEN <<TRUE, "librewolf">>
    ELSE <<FALSE, "">>

----------------------------------------------------------------------------
NoCall == [op |-> "none"]

----------------------------------------------------------------------------
(* The tree in memory: FetchAllBookmarks and BuildTree, and the UI's lists *)

\* ORDER BY b.parent, b.position (rows that tie are taken in the order of their ids)
Before(a, b) ==
    \/ a.parent < b.parent
    \/ a.parent = b.parent /\ a.position < b.position
    \/ a.parent = b.parent /\ a.position = b.position /\ a.id <= b.id

RECURSIVE SortRows(_)
SortRows(rows) ==
    IF rows = {} THEN <<>>
    ELSE LET r == CHOOSE x \in rows : \A y \in rows : Before(x, y)
         IN  <<r>> \o SortRows(rows \ {r})

\* LEFT JOIN moz_places p ON b.fk = p.id, COALESCE(p.url, '')
URLOf(db, fk) ==
    IF \E p \in db.places : p.id = fk
    THEN (CHOOSE p \in db.places : p.id = fk).url
    ELSE ""

FetchAllBookmarks(db) ==
    LET rows == SortRows(db.bookmarks)
    IN  [i \in 1..Len(rows) |->
            [ID |-> rows[i].id, Type |-> rows[i].type, FK |-> rows[i].fk,
             Parent |-> rows[i].parent, Title |-> rows[i].title,
             URL |-> URLOf(db, rows[i].fk), Children |-> <<>>]]

\* the handles, from j on, of the objects whose Parent is id
RECURSIVE ChildHandles(_, _, _)
ChildHandles(bs, id, j) ==
    IF j > Len(bs) THEN <<>>
    ELSE (IF bs[j].Parent # 0 /\ bs[j].Parent = id THEN <<j>> ELSE <<>>)
         \o ChildHandles(bs, id, j + 1)

\* BuildTree: every object with a parent is appended to its parent's Children
BuildTree(bs) ==
    [i \in 1..Len(bs) |-> [bs[i] EXCEPT !.Children = ChildHandles(bs, bs[i].ID, 1)]]

\* ... and the root is the first object with Parent 0 (0: none, an error)
RootOf(bs) ==
    IF \E i \in 1..Len(bs) : bs[i].Parent = 0
    THEN CHOOSE i \in 1..Len(bs) : bs[i].Parent = 0 /\ \A j \in 1..(i - 1) : bs[j].Parent # 0
    ELSE 0

RECURSIVE FilterBookmarks(_, _)
FilterBookmarks(h, children) ==
    IF children = <<>> THEN <<>>
    ELSE (IF h[Head(children)].Type = TypeBookmark THEN <<Head(children)>> ELSE <<>>)
         \o FilterBookmarks(h, Tail(children))

getBookmarksForFolder(h, folder) ==
    IF folder = 0 THEN <<>> ELSE FilterBookmarks(h, h[folder].Children)

\* the handles reachable from the handles hs over Children, in n rounds
RECURSIVE Reach(_, _, _)
Reach(h, hs, n) ==
    IF n = 0 THEN hs
    ELSE Reach(h, hs \cup UNION {{h[x].Children[k] : k \in 1..Len(h[x].Children)} : x \in hs},
               n - 1)

\* what a tree shows: the id, parent, title and URL of every node under its root
TreeView(h, r) ==
    IF r = 0 THEN {}
    ELSE {[ID |-> h[x].ID, Parent |-> h[x].Parent, Title |-> h[x].Title, URL |-> h[x].URL] :
             x \in Reach(h, {r}, Len(h))}

\* the tree at startup, loaded from the source file
InitialHeap == BuildTree(FetchAllBookmarks(InitialDB))
root        == RootOf(InitialHeap)

\* the folders under the root
Folders(h) == {x \in Reach(h, {root}, Len(h)) : x # root /\ h[x].Type = TypeFolder}

hasSubfolders(h, folder) ==
    \E k \in 1..Len(h[folder].Children) : h[h[folder].Children[k]].Type = TypeFolder

\* BuildFlatTree: traverse(node, depth) and its loop over the children
RECURSIVE traverse(_, _, _, _)
RECURSIVE traverseAll(_, _, _, _)
traverse(h, node, depth, expanded) ==
    IF h[node].Type # TypeFolder THEN <<>>
    ELSE LET shown == IF depth > 0
                      THEN <<[Folder |-> node, Depth |-> depth - 1,
                              HasKids |-> hasSubfolders(h, node),
                              Expanded |-> h[node].ID \in expanded]>>
                      ELSE <<>>
         IN  IF depth > 0 /\ h[node].ID \notin expanded THEN shown
             ELSE shown \o traverseAll(h, h[node].Children, depth + 1, expanded)
traverseAll(h, children, depth, expanded) ==
    IF children = <<>> THEN <<>>
    ELSE traverse(h, Head(children), depth, expanded)
         \o traverseAll(h, Tail(children), depth, expanded)

BuildFlatTree(h, expanded) == IF root = 0 THEN <<>> ELSE traverse(h, root, 0, expanded)

\* FindNodeIndex, counted from 0 (-1: not found)
FindNodeIndex(h, nodes, folderID) ==
    IF \E i \in 1..Len(nodes) : h[nodes[i].Folder].ID = folderID
    THEN (CHOOSE i \in 1..Len(nodes) :
              /\ h[nodes[i].Folder].ID = folderID
              /\ \A j \in 1..(i - 1) : h[nodes[j].Folder].ID # folderID) - 1
    ELSE -1

\* the nodes under node, node first, each before its children
RECURSIVE Preorder(_, _)
RECURSIVE PreorderAll(_, _)
Preorder(h, node) == <<node>> \o PreorderAll(h, h[node].Children)
PreorderAll(h, children) ==
    IF children = <<>> THEN <<>>
    ELSE Preorder(h, Head(children)) \o PreorderAll(h, Tail(children))

BarTitles == {"Bookmarks Bar", "toolbar", "Bookmarks Toolbar"}

\* FindBookmarksBar: the first folder so titled, in the order of find (0: nil)
FindBookmarksBar(h) ==
    LET order == IF root = 0 THEN <<>> ELSE Preorder(h, root)
        bars  == {i \in 1..Len(order) :
                     h[order[i]].Type = TypeFolder /\ h[order[i]].Title \in BarTitles}
    IN  IF bars = {} THEN 0
        ELSE order[CHOOSE i \in bars : \A j \in bars : i <= j]

\* ExpandPath: the ids of the folders on the path from the root to the target
ExpandPath(h, target) ==
    {h[x].ID : x \in {y \in Reach(h, {root}, Len(h)) :
                         h[y].Type = TypeFolder /\ target \in Reach(h, {y}, Len(h))}}

\* NewModel: the tree pane and the search fields of the Model built from h
NewModelTree(h) ==
    LET bar == FindBookmarksBar(h)
    IN  /\ expandedFolders = (IF bar # 0 THEN ExpandPath(h, bar) ELSE {})
        /\ treeNodes = BuildFlatTree(h, expandedFolders)
        /\ treeCursor = (IF bar # 0 /\ FindNodeIndex(h, treeNodes, h[bar].ID) >= 0
                         THEN FindNodeIndex(h, treeNodes, h[bar].ID) ELSE 0)
        /\ inSearchMode = FALSE
        /\ searchResults = <<>>

NoKey == [key |-> "none", calls |-> <<>>]
NoEdit == [node |-> 0]

Workers       == 2      \* a.workers (10 in runAudit)
ResultChanCap == 1      \* capacity of resultChan (100 in AuditAll, scaled down with the
                        \* number of bookmarks so that a send can block)
NoResult == [Bookmark |-> 0, Status |-> "StatusPending"]
\* the statuses checkLink returns
Statuses == {"StatusAlive", "StatusDead", "StatusTimeout"}

\* no scan has been started
InitScan ==
    /\ auditInProgress = FALSE
    /\ dedupScanning = FALSE
    /\ dedupGroups = {}
    /\ auditRunning = 0
    /\ auditMsgs = 0
    /\ auditSeen = <<>>
    /\ auditResults = <<>>
    /\ auditReport = -1
    /\ dedupRunning = 0
    /\ dedupMsgs = <<>>
    /\ scans = 0

\* NewAuditor, AuditAll not called
InitAuditor ==
    /\ apc = "idle"
    /\ collected = <<>>
    /\ jobs = <<>>
    /\ jobsClosed = FALSE
    /\ wg = 0
    /\ wpc = [w \in 1..Workers |-> "none"]
    /\ wjob = [w \in 1..Workers |-> 0]
    /\ wres = [w \in 1..Workers |-> NoResult]
    /\ results = <<>>
    /\ resultChan = <<>>
    /\ resultClosed = FALSE
    /\ cpc = "none"
    /\ received = <<>>
    /\ ctxDone = FALSE

\* NewModel: the folder shown first is the bookmarks toolbar, else the first
\* folder handed in
InitUI ==
    /\ heap = InitialHeap
    /\ currentFolder \in Folders(InitialHeap)
    /\ bookmarks = getBookmarksForFolder(InitialHeap, currentFolder)
    /\ selectedBookmarks = {}
    /\ listCursor = 0
    /\ activePane = "TreePane"
    /\ editMode = "EditNone"
    /\ hasPendingChanges = FALSE
    /\ lastKey = NoKey
    /\ editStart = NoEdit
    /\ deletedNodes = {}
    /\ NewModelTree(heap)
    /\ InitScan
    /\ InitAuditor

(* Initial state: the program has loaded the source file, no store exists *)

Init ==
    /\ origFile = DBFile(InitialDB)
    /\ stagingFile = Absent
    /\ backupFile = Absent
    /\ conn = "nil"
    /\ pc = "idle"
    /\ goos \in GOOS
    /\ procs \in {"none"} \cup Browsers
    /\ commitErr = "none"
    /\ mutErr = "none"
    /\ staged = 0
    /\ prevErr = "none"
    /\ guardSeen = FALSE
    /\ queryErr = FALSE
    /\ restoreErr = FALSE
    /\ removeErr = FALSE
    /\ origAtCreate = Absent
    /\ origAtCommit = Absent
    /\ stagedAtCommit = Absent
    /\ wroteBySwap = FALSE
    /\ wroteByRestore = FALSE
    /\ lastErr = "none"
    /\ lastCall = NoCall
    /\ InitUI

\* the held store is let go: what was recorded about it is forgotten
DropStore ==
    /\ conn' = "nil"
    /\ commitErr' = "none"
    /\ origAtCreate' = Absent
    /\ wroteBySwap' = FALSE
    /\ wroteByRestore' = FALSE

----------------------------------------------------------------------------
(* CreateStaging; its callers call it while they hold no store.  Called again,
   it copies the original over the staging path a held store works on. *)

CreateOutcomes == CopyOutcomes \cup {"sqlopen_err", "pragma_err"}

CreateStaging(o, removeOk) ==
    /\ pc = "idle"
    /\ LET copyOutcome == IF o \in CopyOutcomes THEN o ELSE "ok"
           copied      == copyFileDst(origFile, stagingFile, copyOutcome)
       IN  IF copyFileErr(origFile, copyOutcome)
           THEN /\ stagingFile' = copied
                /\ lastErr' = "create_copy"
                /\ UNCHANGED <<conn, origAtCreate>>
           ELSE IF o \in {"sqlopen_err", "pragma_err"}
           THEN /\ stagingFile' = RemoveFile(copied, removeOk)
                /\ lastErr' = IF o = "sqlopen_err" THEN "create_open" ELSE "create_pragma"
                /\ UNCHANGED <<conn, origAtCreate>>
           ELSE /\ stagingFile' = copied
                /\ lastErr' = "none"
                /\ conn' = "open"
                /\ origAtCreate' = origFile
    /\ mutErr' = "none"
    /\ UNCHANGED <<origFile, backupFile, pc, envVars, commitErr, staged,
                   callVars, wroteBySwap, wroteByRestore>>

----------------------------------------------------------------------------
(* Mutation operations of the store *)

\* the database the statements run against
StagingRows ==
    IF IsDB(stagingFile) THEN stagingFile.db ELSE [bookmarks |-> {}, places |-> {}]

\* (mutant) the statement is executed against the source file
Exec_OnSource(newdb, fails) ==
    /\ pc = "idle"
    /\ conn # "nil"
    /\ staged' = staged + 1
    /\ IF conn = "open" /\ ~fails /\ IsDB(stagingFile)
       THEN origFile' = DBFile(newdb) /\ mutErr' = "ok"
       ELSE origFile' = origFile /\ mutErr' = "err"
    /\ UNCHANGED <<stagingFile, backupFile, conn, pc, envVars, commitErr, histVars>>
    /\ UNCHANGED lastErr

\* conn.Exec / tx.Commit on the staging connection: the statement takes effect,
\* or it fails (always so on a closed connection) and nothing changes
Exec(newdb, fails) ==
    /\ pc = "idle"
    /\ conn # "nil"
    /\ staged' = staged + 1
    /\ IF conn = "open" /\ ~fails /\ IsDB(stagingFile)
       THEN stagingFile' = DBFile(newdb) /\ mutErr' = "ok"
       ELSE stagingFile' = stagingFile /\ mutErr' = "err"
    /\ UNCHANGED <<origFile, backupFile, conn, pc, envVars, commitErr, histVars>>
    /\ UNCHANGED lastErr

\* an operation of several statements, r its outcome <<db, err>> on a working
\* connection: on a closed connection already its first statement fails
ExecAll(r) ==
    /\ pc = "idle"
    /\ conn # "nil"
    /\ staged' = staged + 1
    /\ IF conn = "open" /\ IsDB(stagingFile)
       THEN stagingFile' = DBFile(r.db) /\ mutErr' = IF r.err THEN "err" ELSE "ok"
       ELSE stagingFile' = stagingFile /\ mutErr' = "err"
    /\ UNCHANGED <<origFile, backupFile, conn, pc, envVars, commitErr, histVars>>
    /\ UNCHANGED lastErr

UpdateBookmarkTitle(bookmarkID, newTitle, now, fails) ==
    Exec(SqlUpdateTitle(StagingRows, bookmarkID, newTitle, now), fails)

UpdateBookmarkURL(placeID, newURL, now, fails) ==
    Exec(SqlUpdateURL(StagingRows, placeID, newURL, now), fails)

DeleteBookmark(bookmarkID, fails) ==
    Exec(SqlDelete(StagingRows, bookmarkID), fails)

MoveBookmark(bookmarkID, newParentID, newPosition, now, fails) ==
    Exec(SqlMove(StagingRows, bookmarkID, newParentID, newPosition, now), fails)

\* a row can be inserted within the bounds
RoomForRow   == NextRowId(StagingRows.bookmarks) <= MaxRowId
RoomForPlace == NextRowId(StagingRows.places) <= MaxPlaceId

AddBookmark(parentID, title, url, now, failAt) ==
    LET tx == TxAddBookmark(StagingRows, parentID, title, url, now, failAt)
    IN  /\ RoomForRow
        /\ PlaceFound(StagingRows, url, failAt) = NULL => RoomForPlace
        /\ ExecAll(tx)

FindOrCreateScratchFolder(now, failAt) ==
    LET r == SqlFindOrCreateScratchFolder(StagingRows, now, failAt)
    IN  /\ RoomForRow
        /\ ExecAll(r)

----------------------------------------------------------------------------
(* Commit, one action per step; commitChanges is its caller *)

\* (mutant) the connection is released before the liveness check
CommitLiveness_AfterRelease(cmdFails) ==
    /\ pc = "idle"
    /\ conn # "nil"
    /\ conn' = "closed"
    /\ LET running == isBrowserRunning(goos, cmdFails, procs)[1]
       IN  /\ guardSeen' = running
           /\ IF running
              THEN commitErr' = "locked" /\ pc' = "return"
              ELSE commitErr' = "pending" /\ pc' = "release"
    /\ queryErr' = (goos \in {"linux", "darwin", "windows"} /\ CmdErr(goos, cmdFails, procs))
    /\ prevErr' = commitErr
    /\ origAtCommit' = origFile
    /\ stagedAtCommit' = stagingFile
    /\ mutErr' = "none"
    /\ UNCHANGED <<restoreErr, removeErr>>
    /\ UNCHANGED <<fileVars, envVars, staged, lifeVars>>
    /\ UNCHANGED lastErr

\* (mutant) a refusal is remembered: once locked, the store stays locked
CommitLiveness_Cached(cmdFails) ==
    /\ pc = "idle"
    /\ conn # "nil"
    /\ LET running == commitErr = "locked" \/ isBrowserRunning(goos, cmdFails, procs)[1]
       IN  /\ guardSeen' = running
           /\ IF running
              THEN commitErr' = "locked" /\ pc' = "return"
              ELSE commitErr' = "pending" /\ pc' = "release"
    /\ queryErr' = (goos \in {"linux", "darwin", "windows"} /\ CmdErr(goos, cmdFails, procs))
    /\ prevErr' = commitErr
    /\ origAtCommit' = origFile
    /\ stagedAtCommit' = stagingFile
    /\ mutErr' = "none"
    /\ UNCHANGED <<restoreErr, removeErr>>
    /\ UNCHANGED <<fileVars, conn, envVars, staged, lifeVars>>
    /\ UNCHANGED lastErr

\* Commit is called; step 1: the liveness check
CommitLiveness(cmdFails) ==
    /\ pc = "idle"
    /\ conn # "nil"
    /\ LET running == isBrowserRunning(goos, cmdFails, procs)[1]
       IN  /\ guardSeen' = running
           /\ IF running
              THEN commitErr' = "locked" /\ pc' = "return"
              ELSE commitErr' = "pending" /\ pc' = "release"
    /\ queryErr' = (goos \in {"linux", "darwin", "windows"} /\ CmdErr(goos, cmdFails, procs))
    /\ prevErr' = commitErr
    /\ origAtCommit' = origFile
    /\ stagedAtCommit' = stagingFile
    /\ mutErr' = "none"
    /\ UNCHANGED <<restoreErr, removeErr>>
    /\ UNCHANGED <<fileVars, conn, envVars, staged, lifeVars>>
    /\ UNCHANGED lastErr

\* step 2: s.conn.Close(); closing a closed sql.DB returns nil
CommitRelease(closeFails) ==
    /\ pc = "release"
    /\ conn' = "closed"
    /\ IF conn = "open" /\ closeFails
       THEN commitErr' = "close" /\ pc' = "return"
       ELSE commitErr' = commitErr /\ pc' = "backup"
    /\ UNCHANGED <<fileVars, envVars, mutErr, staged, histVars>>
    /\ UNCHANGED lastErr

\* (mutant) the backup is taken by moving the original to the backup path
CommitBackup_ByRename(o) ==
    /\ pc = "backup"
    /\ IF o = "ok"
       THEN /\ backupFile' = origFile
            /\ origFile' = Absent
            /\ commitErr' = commitErr /\ pc' = "swap"
       ELSE /\ UNCHANGED <<backupFile, origFile>>
            /\ commitErr' = "backup" /\ pc' = "return"
    /\ UNCHANGED <<stagingFile, conn, envVars, mutErr, staged, histVars>>
    /\ UNCHANGED lastErr

\* (mutant) the error of copyFile is dropped and the swap goes ahead
CommitBackup_IgnoreErr(o) ==
    /\ pc = "backup"
    /\ backupFile' = copyFileDst(origFile, backupFile, o)
    /\ commitErr' = commitErr
    /\ pc' = "swap"
    /\ UNCHANGED <<origFile, stagingFile, conn, envVars, mutErr, staged, histVars>>
    /\ UNCHANGED lastErr

\* step 3: copyFile(s.originalPath, backupPath)
CommitBackup(o) ==
    /\ pc = "backup"
    /\ backupFile' = copyFileDst(origFile, backupFile, o)
    /\ IF copyFileErr(origFile, o)
       THEN commitErr' = "backup" /\ pc' = "return"
       ELSE commitErr' = commitErr /\ pc' = "swap"
    /\ UNCHANGED <<origFile, stagingFile, conn, envVars, mutErr, staged, histVars>>
    /\ UNCHANGED lastErr

\* (mutant) the staging copy is copied over the original in place, so that a
\* failure leaves the original half-written
CommitSwap_InPlace(ok) ==
    /\ pc = "swap"
    /\ IF ok /\ stagingFile # Absent
       THEN /\ origFile' = stagingFile
            /\ stagingFile' = Absent
            /\ wroteBySwap' = TRUE
            /\ pc' = "cleanup"
       ELSE /\ origFile' = Partial
            /\ UNCHANGED <<stagingFile, wroteBySwap>>
            /\ pc' = "restore"
    /\ UNCHANGED <<backupFile, conn, envVars, commitErr, mutErr, staged, callVars,
                   origAtCreate, wroteByRestore>>
    /\ UNCHANGED lastErr

\* (mutant) the liveness guard is checked again right before the rename
CommitSwap_Rechecked(ok) ==
    /\ pc = "swap"
    /\ IF isBrowserRunning(goos, FALSE, procs)[1]
       THEN /\ commitErr' = "locked"
            /\ pc' = "return"
            /\ UNCHANGED <<origFile, stagingFile, wroteBySwap>>
       ELSE /\ commitErr' = commitErr
            /\ IF ok /\ stagingFile # Absent
               THEN /\ origFile' = stagingFile
                    /\ stagingFile' = Absent
                    /\ wroteBySwap' = TRUE
                    /\ pc' = "cleanup"
               ELSE /\ UNCHANGED <<origFile, stagingFile, wroteBySwap>>
                    /\ pc' = "restore"
    /\ UNCHANGED <<backupFile, conn, envVars, mutErr, staged, callVars,
                   origAtCreate, wroteByRestore>>
    /\ UNCHANGED lastErr

\* step 4: os.Rename(s.stagingPath, s.originalPath)
CommitSwap(ok) ==
    /\ pc = "swap"
    /\ IF ok /\ stagingFile # Absent
       THEN /\ origFile' = stagingFile
            /\ stagingFile' = Absent
            /\ wroteBySwap' = TRUE
            /\ pc' = "cleanup"
       ELSE /\ UNCHANGED <<origFile, stagingFile, wroteBySwap>>
            /\ pc' = "restore"
    /\ UNCHANGED <<backupFile, conn, envVars, commitErr, mutErr, staged, callVars,
                   origAtCreate, wroteByRestore>>
    /\ UNCHANGED lastErr

\* the swap failed: os.Rename(backupPath, s.originalPath), its error dropped
CommitRestore(ok) ==
    /\ pc = "restore"
    /\ IF ok /\ backupFile # Absent
       THEN /\ origFile' = backupFile
            /\ backupFile' = Absent
            /\ wroteByRestore' = TRUE
            /\ restoreErr' = FALSE
       ELSE /\ UNCHANGED <<origFile, backupFile, wroteByRestore>>
            /\ restoreErr' = TRUE
    /\ commitErr' = "swap"
    /\ pc' = "return"
    /\ UNCHANGED <<stagingFile, conn, envVars, mutErr, staged, prevErr, guardSeen,
                   queryErr, removeErr, origAtCommit, stagedAtCommit, origAtCreate,
                   wroteBySwap>>
    /\ UNCHANGED lastErr

\* (mutant) the backup is kept
CommitCleanup_KeepBackup(ok) ==
    /\ pc = "cleanup"
    /\ backupFile' = backupFile
    /\ removeErr' = FALSE
    /\ commitErr' = "ok"
    /\ pc' = "return"
    /\ UNCHANGED <<origFile, stagingFile, conn, envVars, mutErr, staged, prevErr,
                   guardSeen, queryErr, restoreErr, origAtCommit, stagedAtCommit,
                   lifeVars>>
    /\ UNCHANGED lastErr

\* step 5: os.Remove(backupPath), its error dropped
CommitCleanup(ok) ==
    /\ pc = "cleanup"
    /\ backupFile' = RemoveFile(backupFile, ok)
    /\ removeErr' = ~ok
    /\ commitErr' = "ok"
    /\ pc' = "return"
    /\ UNCHANGED <<origFile, stagingFile, conn, envVars, mutErr, staged, prevErr,
                   guardSeen, queryErr, restoreErr, origAtCommit, stagedAtCommit,
                   lifeVars>>
    /\ UNCHANGED lastErr

\* Commit has returned to commitChanges: a committed store is dropped
commitChanges ==
    /\ pc = "return"
    /\ pc' = "idle"
    /\ IF commitErr = "ok"
       THEN DropStore
       ELSE UNCHANGED <<conn, commitErr, lifeVars>>
    /\ prevErr' = "none"
    /\ guardSeen' = FALSE
    /\ queryErr' = FALSE
    /\ restoreErr' = FALSE
    /\ removeErr' = FALSE
    /\ origAtCommit' = Absent
    /\ stagedAtCommit' = Absent
    /\ UNCHANGED <<fileVars, envVars, mutErr, staged>>
    /\ UNCHANGED lastErr

----------------------------------------------------------------------------
(* Discarding the store *)

\* (mutant) Rollback closes the connection and leaves the staging file
Rollback_KeepFile(removeOk) ==
    /\ pc = "idle"
    /\ conn # "nil"
    /\ stagingFile' = stagingFile
    /\ lastErr' = "discard_nil"
    /\ DropStore
    /\ UNCHANGED <<origFile, backupFile, pc, envVars, mutErr, staged, callVars>>

\* Rollback: close the connection (error dropped), remove the staging file;
\* the error of os.Remove is returned (removing a missing file is an error)
Rollback(removeOk) ==
    /\ pc = "idle"
    /\ conn # "nil"
    /\ stagingFile' = RemoveFile(stagingFile, removeOk)
    /\ lastErr' = IF removeOk /\ stagingFile # Absent THEN "discard_nil" ELSE "discard_err"
    /\ DropStore
    /\ UNCHANGED <<origFile, backupFile, pc, envVars, mutErr, staged, callVars>>

\* what Close does to the staging path: nothing if closing the connection
\* fails, else the file is removed if os.Stat finds it
CloseStagingFile(closeFails, removeOk) ==
    IF conn = "open" /\ closeFails THEN stagingFile
    ELSE IF stagingFile # Absent THEN RemoveFile(stagingFile, removeOk)
    ELSE stagingFile

\* the error Close returns: that of closing the connection, else that of
\* os.Remove if os.Stat finds the file, else nil
CloseErr(closeFails, removeOk) ==
    IF conn = "open" /\ closeFails THEN "discard_err"
    ELSE IF stagingFile # Absent /\ ~removeOk THEN "discard_err"
    ELSE "discard_nil"

\* (mutant) Close saves the staged changes: the copy is renamed over the original
Close_Saving(closeFails, removeOk) ==
    /\ pc = "idle"
    /\ conn # "nil"
    /\ origFile' = IF stagingFile # Absent THEN stagingFile ELSE origFile
    /\ stagingFile' = Absent
    /\ lastErr' = "discard_nil"
    /\ DropStore
    /\ UNCHANGED <<backupFile, pc, envVars, mutErr, staged, callVars>>

Close(closeFails, removeOk) ==
    /\ pc = "idle"
    /\ conn # "nil"
    /\ stagingFile' = CloseStagingFile(closeFails, removeOk)
    /\ lastErr' = CloseErr(closeFails, removeOk)
    /\ DropStore
    /\ UNCHANGED <<origFile, backupFile, pc, envVars, mutErr, staged, callVars>>

\* keys ctrl+c and Q: close the store if there is one, quit
KeyQuit(closeFails, removeOk) ==
    /\ pc = "idle"
    /\ pc' = "quit"
    /\ stagingFile' = IF conn # "nil" THEN CloseStagingFile(closeFails, removeOk)
                      ELSE stagingFile
    /\ lastErr' = IF conn # "nil" THEN CloseErr(closeFails, removeOk) ELSE lastErr
    /\ DropStore
    /\ UNCHANGED <<origFile, backupFile, envVars, mutErr, staged, callVars>>

\* key q: refused while there are pending changes (pending: the value of
\* m.hasPendingChanges), else as ctrl+c
KeyQ(pending, closeFails, removeOk) ==
    /\ pc = "idle"
    /\ IF pending
       THEN UNCHANGED storeVars
       ELSE KeyQuit(closeFails, removeOk)

----------------------------------------------------------------------------
(* The browser, outside the program, starts and stops at any time *)

BrowserStart(p) ==
    /\ procs = "none"
    /\ procs' = p
    /\ UNCHANGED <<fileVars, conn, pc, goos, commitErr, mutErr, staged, histVars>>
    /\ UNCHANGED lastErr

BrowserStop ==
    /\ procs # "none"
    /\ procs' = "none"
    /\ UNCHANGED <<fileVars, conn, pc, goos, commitErr, mutErr, staged, histVars>>
    /\ UNCHANGED lastErr

----------------------------------------------------------------------------
(* The arguments callers pass: the UI edits and deletes the bookmarks it lists
   (rows of type 1, with their fk) and adds to the folder it shows *)

BookmarkIds == {r.id : r \in {x \in StagingRows.bookmarks : x.type = TypeBookmark}}
BookmarkFKs == {r.fk : r \in {x \in StagingRows.bookmarks : x.type = TypeBookmark}}
FolderIds   == {r.id : r \in {x \in StagingRows.bookmarks : x.type = TypeFolder}}

\* the commit protocol under every order of calls to the store
Next ==
    \/ \E o \in CreateOutcomes, removeOk \in BOOLEAN :
           conn = "nil" /\ CreateStaging(o, removeOk) /\ UNCHANGED callerVars
    \/ \E id \in BookmarkIds, t \in Titles, now \in Times, f \in BOOLEAN :
           staged < MaxStaged /\ UpdateBookmarkTitle(id, t, now, f) /\ UNCHANGED callerVars
    \/ \E id \in BookmarkFKs, u \in Urls, now \in Times, f \in BOOLEAN :
           staged < MaxStaged /\ UpdateBookmarkURL(id, u, now, f) /\ UNCHANGED callerVars
    \/ \E id \in BookmarkIds, f \in BOOLEAN :
           staged < MaxStaged /\ DeleteBookmark(id, f) /\ UNCHANGED callerVars
    \/ \E id \in BookmarkIds, par \in FolderIds, pos \in Positions, now \in Times,
          f \in BOOLEAN :
           staged < MaxStaged /\ MoveBookmark(id, par, pos, now, f) /\ UNCHANGED callerVars
    \/ \E par \in FolderIds, t \in NewTitles, u \in Urls, now \in Times,
          failAt \in {"none", "commit"} :
           staged < MaxStaged /\ AddBookmark(par, t, u, now, failAt) /\ UNCHANGED callerVars
    \/ \E cmdFails \in BOOLEAN : CommitLiveness(cmdFails) /\ UNCHANGED callerVars
    \/ \E closeFails \in BOOLEAN : CommitRelease(closeFails) /\ UNCHANGED callerVars
    \/ \E o \in CopyOutcomes : CommitBackup(o) /\ UNCHANGED callerVars
    \/ \E ok \in BOOLEAN : CommitSwap(ok) /\ UNCHANGED callerVars
    \/ \E ok \in BOOLEAN : CommitRestore(ok) /\ UNCHANGED callerVars
    \/ \E ok \in BOOLEAN : CommitCleanup(ok) /\ UNCHANGED callerVars
    \/ commitChanges /\ UNCHANGED callerVars
    \/ \E removeOk \in BOOLEAN : Rollback(removeOk) /\ UNCHANGED callerVars
    \/ \E closeFails \in BOOLEAN, removeOk \in BOOLEAN :
           Close(closeFails, removeOk) /\ UNCHANGED callerVars
    \/ \E closeFails \in BOOLEAN, removeOk \in BOOLEAN :
           KeyQuit(closeFails, removeOk) /\ UNCHANGED callerVars
    \/ \E hpc \in BOOLEAN, closeFails \in BOOLEAN, removeOk \in BOOLEAN :
           KeyQ(hpc, closeFails, removeOk) /\ UNCHANGED callerVars
    \/ \E p \in Browsers : BrowserStart(p) /\ UNCHANGED callerVars
    \/ BrowserStop /\ UNCHANGED callerVars

Spec == Init /\ [][Next]_vars

----------------------------------------------------------------------------
(* The mutation operations by themselves: a store has been created and its
   operations are called with any arguments, also ids of no row *)

InitDB ==
    /\ origFile = DBFile(InitialDB)
    /\ stagingFile = DBFile(InitialDB)
    /\ backupFile = Absent
    /\ conn = "open"
    /\ pc = "idle"
    /\ goos = "linux"
    /\ procs = "none"
    /\ commitErr = "none"
    /\ mutErr = "none"
    /\ staged = 0
    /\ prevErr = "none"
    /\ guardSeen = FALSE
    /\ queryErr = FALSE
    /\ restoreErr = FALSE
    /\ removeErr = FALSE
    /\ origAtCreate = DBFile(InitialDB)
    /\ origAtCommit = Absent
    /\ stagedAtCommit = Absent
    /\ wroteBySwap = FALSE
    /\ wroteByRestore = FALSE
    /\ lastErr = "none"
    /\ lastCall = NoCall
    /\ InitUI

RowIds   == {r.id : r \in StagingRows.bookmarks} \cup {NextRowId(StagingRows.bookmarks)}
PlaceIds == {p.id : p \in StagingRows.places} \cup {NextRowId(StagingRows.places)}

\* the titles the store is called with
DBTitles == Titles \cup {"Scratch"}

\* currentMicroseconds(): the clock advances from call to call
Now == staged + 1

NextDB ==
    \/ \E id \in RowIds, t \in DBTitles, f \in BOOLEAN :
           /\ staged < MaxCalls
           /\ UpdateBookmarkTitle(id, t, Now, f)
           /\ lastCall' = [op |-> "UpdateBookmarkTitle", bookmarkID |-> id, newTitle |-> t]
           /\ UNCHANGED <<uiVars, collabVars>>
    \/ \E id \in PlaceIds, u \in Urls, f \in BOOLEAN :
           /\ staged < MaxCalls
           /\ UpdateBookmarkURL(id, u, Now, f)
           /\ lastCall' = [op |-> "UpdateBookmarkURL", placeID |-> id, newURL |-> u]
           /\ UNCHANGED <<uiVars, collabVars>>
    \/ \E id \in RowIds, f \in BOOLEAN :
           /\ staged < MaxCalls
           /\ DeleteBookmark(id, f)
           /\ lastCall' = [op |-> "DeleteBookmark", bookmarkID |-> id]
           /\ UNCHANGED <<uiVars, collabVars>>
    \/ \E id \in BookmarkIds, par \in FolderIds, pos \in Positions, f \in BOOLEAN :
           /\ staged < MaxCalls
           /\ MoveBookmark(id, par, pos, Now, f)
           /\ lastCall' = [op |-> "MoveBookmark", bookmarkID |-> id, newParentID |-> par,
                           newPosition |-> pos]
           /\ UNCHANGED <<uiVars, collabVars>>
    \/ \E par \in FolderIds, t \in Titles, u \in Urls, failAt \in AddOutcomes :
           /\ staged < MaxCalls
           /\ AddBookmark(par, t, u, Now, failAt)
           /\ lastCall' = [op |-> "AddBookmark", parentID |-> par, title |-> t, url |-> u,
                           failAt |-> failAt]
           /\ UNCHANGED <<uiVars, collabVars>>
    \/ \E failAt \in {"none"} \cup ScratchFailures :
           /\ staged < MaxCalls
           /\ FindOrCreateScratchFolder(Now, failAt)
           /\ lastCall' = [op |-> "FindOrCreateScratchFolder", failAt |-> failAt,
                           id |-> SqlFindOrCreateScratchFolder(StagingRows, Now, failAt).id]
           /\ UNCHANGED <<uiVars, collabVars>>

SpecDB == InitDB /\ [][NextDB]_vars

----------------------------------------------------------------------------
(* The UI session: Model.Update handles one key at a time and calls the store.
   The text typed into an input field is an argument of the handler that
   reads it; the cursor of the tree pane is the folder chosen with it. *)

\* the object under the list cursor
Cursor == bookmarks[listCursor + 1]

\* (mutant) the keys of the main switch are handled in DedupMode as well
InMainKeys_InDedupMode ==
    /\ pc = "idle"
    /\ editMode \in {"EditNone", "DedupMode"} \/ (editMode = "AuditMode" /\ auditInProgress)

\* the keys of the main switch are handled when no edit mode is on, and in
\* AuditMode while the audit is in progress (the key falls through)
InMainKeys ==
    /\ pc = "idle"
    /\ editMode = "EditNone" \/ (editMode = "AuditMode" /\ auditInProgress)

\* lastKey is the key whose handling led to the state and the store calls
\* made for it; NoKey after a step of Commit or of the environment
Key(k, storeCalls) ==
    /\ lastKey' = [key |-> k, calls |-> storeCalls]
    /\ UNCHANGED <<editStart, deletedNodes, navVars, collabVars>>

\* a key that moves in the tree or searches: the handler says what becomes of navVars
KeyNav(k) ==
    /\ lastKey' = [key |-> k, calls |-> <<>>]
    /\ UNCHANGED <<editStart, deletedNodes, collabVars>>

\* a key that begins an edit or ends it: start is the record of the edit kept
KeyOfEdit(k, storeCalls, start) ==
    /\ lastKey' = [key |-> k, calls |-> storeCalls]
    /\ editStart' = start
    /\ UNCHANGED <<deletedNodes, navVars, collabVars>>

\* the title of the row and the URL of the URL record of the node n in the file f
CopyView(f, n) ==
    IF IsDB(f)
    THEN [title |-> {r.title : r \in {x \in f.db.bookmarks : x.id = n.ID}},
          url   |-> URLOf(f.db, n.FK)]
    ELSE [title |-> {}, url |-> ""]

\* the bookmark under the cursor as it is in the tree and in the file f
EditStartAt(f) ==
    [node |-> Cursor, Title |-> heap[Cursor].Title, URL |-> heap[Cursor].URL,
     copy |-> CopyView(f, heap[Cursor]), pending |-> hasPendingChanges]

NoKeyHandled ==
    /\ lastKey' = NoKey
    /\ UNCHANGED <<editStart, deletedNodes, navVars, collabVars>>
    /\ UNCHANGED <<lastCall, heap, currentFolder, bookmarks, selectedBookmarks, listCursor,
                   activePane, editMode, hasPendingChanges>>

Calls(k, op) == \E i \in DOMAIN k.calls : k.calls[i] = op

\* key tab
togglePane ==
    /\ InMainKeys
    /\ activePane' = IF activePane = "TreePane" THEN "ListPane" ELSE "TreePane"
    /\ Key("tab", <<>>)
    /\ UNCHANGED <<storeVars, lastCall, heap, currentFolder, bookmarks, selectedBookmarks,
                   listCursor, editMode, hasPendingChanges>>

\* key j moving the list cursor without looking at the length of the list
cursorDown_NoBound ==
    /\ InMainKeys
    /\ IF activePane = "TreePane"
       THEN /\ treeCursor' = IF treeCursor < Len(treeNodes) - 1 THEN treeCursor + 1
                             ELSE treeCursor
            /\ UNCHANGED listCursor
       ELSE /\ listCursor' = listCursor + 1
            /\ UNCHANGED treeCursor
    /\ KeyNav("j")
    /\ UNCHANGED <<treeNodes, expandedFolders, inSearchMode, searchResults>>
    /\ UNCHANGED <<storeVars, lastCall, heap, currentFolder, bookmarks, selectedBookmarks,
                   activePane, editMode, hasPendingChanges>>

\* key j
cursorDown ==
    /\ InMainKeys
    /\ IF activePane = "TreePane"
       THEN /\ treeCursor' = IF treeCursor < Len(treeNodes) - 1 THEN treeCursor + 1
                             ELSE treeCursor
            /\ UNCHANGED listCursor
       ELSE LET maxItems == IF inSearchMode THEN Len(searchResults) ELSE Len(bookmarks)
            IN  /\ listCursor' = IF listCursor < maxItems - 1 THEN listCursor + 1
                                 ELSE listCursor
                /\ UNCHANGED treeCursor
    /\ KeyNav("j")
    /\ UNCHANGED <<treeNodes, expandedFolders, inSearchMode, searchResults>>
    /\ UNCHANGED <<storeVars, lastCall, heap, currentFolder, bookmarks, selectedBookmarks,
                   activePane, editMode, hasPendingChanges>>

\* key k
cursorUp ==
    /\ InMainKeys
    /\ IF activePane = "TreePane"
       THEN /\ treeCursor' = IF treeCursor > 0 THEN treeCursor - 1 ELSE treeCursor
            /\ UNCHANGED listCursor
       ELSE /\ listCursor' = IF listCursor > 0 THEN listCursor - 1 ELSE listCursor
            /\ UNCHANGED treeCursor
    /\ KeyNav("k")
    /\ UNCHANGED <<treeNodes, expandedFolders, inSearchMode, searchResults>>
    /\ UNCHANGED <<storeVars, lastCall, heap, currentFolder, bookmarks, selectedBookmarks,
                   activePane, editMode, hasPendingChanges>>

\* key enter in the tree pane
toggleOrSelectFolder ==
    /\ InMainKeys
    /\ activePane = "TreePane"
    /\ IF treeCursor >= Len(treeNodes)
       THEN UNCHANGED <<currentFolder, bookmarks, listCursor, treeNodes, treeCursor,
                        expandedFolders>>
       ELSE LET node == treeNodes[treeCursor + 1]
                id   == heap[node.Folder].ID
            IN  /\ IF node.HasKids
                   THEN /\ expandedFolders' = IF node.Expanded THEN expandedFolders \ {id}
                                              ELSE expandedFolders \cup {id}
                        /\ treeNodes' = BuildFlatTree(heap, expandedFolders')
                        /\ treeCursor' = IF FindNodeIndex(heap, treeNodes', id) >= 0
                                         THEN FindNodeIndex(heap, treeNodes', id)
                                         ELSE treeCursor
                   ELSE UNCHANGED <<treeNodes, treeCursor, expandedFolders>>
                /\ currentFolder' = node.Folder
                /\ bookmarks' = getBookmarksForFolder(heap, node.Folder)
                /\ listCursor' = 0
    /\ KeyNav("enter")
    /\ UNCHANGED <<inSearchMode, searchResults>>
    /\ UNCHANGED <<storeVars, lastCall, heap, selectedBookmarks, activePane, editMode,
                   hasPendingChanges>>

\* (mutant) key e creates a store without looking whether one is held
enterEditMode_NoCheck(o, removeOk) ==
    /\ InMainKeys
    /\ activePane = "ListPane"
    /\ Len(bookmarks) > 0
    /\ listCursor < Len(bookmarks)
    /\ CreateStaging(o, removeOk)
    /\ editMode' = IF conn' # "nil" THEN "EditTitle" ELSE editMode
    /\ KeyOfEdit("e", <<"CreateStaging">>,
                 IF conn' # "nil" THEN EditStartAt(stagingFile') ELSE NoEdit)
    /\ UNCHANGED <<lastCall, heap, currentFolder, bookmarks, selectedBookmarks, listCursor,
                   activePane, hasPendingChanges>>

\* (mutant) key e enters EditTitle although CreateStaging has failed
enterEditMode_IgnoreErr(o, removeOk) ==
    /\ InMainKeys
    /\ activePane = "ListPane"
    /\ Len(bookmarks) > 0
    /\ listCursor < Len(bookmarks)
    /\ IF conn = "nil" THEN CreateStaging(o, removeOk) ELSE UNCHANGED storeVars
    /\ editMode' = "EditTitle"
    /\ KeyOfEdit("e", IF conn = "nil" THEN <<"CreateStaging">> ELSE <<>>,
                 IF conn' # "nil" THEN EditStartAt(stagingFile') ELSE NoEdit)
    /\ UNCHANGED <<lastCall, heap, currentFolder, bookmarks, selectedBookmarks, listCursor,
                   activePane, hasPendingChanges>>

\* key e in the list pane
enterEditMode(o, removeOk) ==
    /\ InMainKeys
    /\ activePane = "ListPane"
    /\ Len(bookmarks) > 0
    /\ listCursor < Len(bookmarks)
    /\ IF conn = "nil" THEN CreateStaging(o, removeOk) ELSE UNCHANGED storeVars
    /\ editMode' = IF conn' # "nil" THEN "EditTitle" ELSE editMode
    /\ KeyOfEdit("e", IF conn = "nil" THEN <<"CreateStaging">> ELSE <<>>,
                 IF conn' # "nil" THEN EditStartAt(stagingFile') ELSE NoEdit)
    /\ UNCHANGED <<lastCall, heap, currentFolder, bookmarks, selectedBookmarks, listCursor,
                   activePane, hasPendingChanges>>

\* key n in the list pane
enterAddMode(o, removeOk) ==
    /\ InMainKeys
    /\ activePane = "ListPane"
    /\ currentFolder # 0
    /\ IF conn = "nil" THEN CreateStaging(o, removeOk) ELSE UNCHANGED storeVars
    /\ editMode' = IF conn' # "nil" THEN "AddTitle" ELSE editMode
    /\ Key("n", IF conn = "nil" THEN <<"CreateStaging">> ELSE <<>>)
    /\ UNCHANGED <<lastCall, heap, currentFolder, bookmarks, selectedBookmarks, listCursor,
                   activePane, hasPendingChanges>>

\* key esc in an edit mode
KeyEsc ==
    /\ pc = "idle"
    /\ editMode \in {"EditTitle", "EditURL", "AddTitle", "AddURL"}
    /\ editMode' = "EditNone"
    /\ KeyOfEdit("esc", <<>>, NoEdit)
    /\ UNCHANGED <<storeVars, lastCall, heap, currentFolder, bookmarks, selectedBookmarks,
                   listCursor, activePane, hasPendingChanges>>

\* key enter in EditTitle, newTitle the text of the title input
saveTitle(newTitle, fails) ==
    /\ pc = "idle"
    /\ editMode = "EditTitle"
    /\ listCursor < Len(bookmarks)
    /\ IF newTitle # heap[Cursor].Title
       THEN /\ staged < MaxStaged
            /\ UpdateBookmarkTitle(heap[Cursor].ID, newTitle, Now, fails)
            /\ KeyOfEdit("enter", <<"UpdateBookmarkTitle">>,
                         IF mutErr' = "ok" THEN editStart ELSE NoEdit)
            /\ IF mutErr' = "ok"
               THEN /\ heap' = [heap EXCEPT ![Cursor].Title = newTitle]
                    /\ hasPendingChanges' = TRUE
                    /\ editMode' = "EditURL"
               ELSE /\ UNCHANGED <<heap, hasPendingChanges>>
                    /\ editMode' = "EditNone"
       ELSE /\ editMode' = "EditURL"
            /\ Key("enter", <<>>)
            /\ UNCHANGED <<storeVars, heap, hasPendingChanges>>
    /\ UNCHANGED <<lastCall, currentFolder, bookmarks, selectedBookmarks, listCursor,
                   activePane>>

\* key enter in EditURL, newURL the text of the URL input
saveURL(newURL, fails) ==
    /\ pc = "idle"
    /\ editMode = "EditURL"
    /\ listCursor < Len(bookmarks)
    /\ IF newURL # heap[Cursor].URL /\ heap[Cursor].FK # NULL
       THEN /\ staged < MaxStaged
            /\ UpdateBookmarkURL(heap[Cursor].FK, newURL, Now, fails)
            /\ KeyOfEdit("enter", <<"UpdateBookmarkURL">>, NoEdit)
            /\ IF mutErr' = "ok"
               THEN /\ heap' = [heap EXCEPT ![Cursor].URL = newURL]
                    /\ hasPendingChanges' = TRUE
               ELSE UNCHANGED <<heap, hasPendingChanges>>
       ELSE /\ KeyOfEdit("enter", <<>>, NoEdit)
            /\ UNCHANGED <<storeVars, heap, hasPendingChanges>>
    /\ editMode' = "EditNone"
    /\ UNCHANGED <<lastCall, currentFolder, bookmarks, selectedBookmarks, listCursor,
                   activePane>>

\* key enter in AddTitle
saveNewTitle ==
    /\ pc = "idle"
    /\ editMode = "AddTitle"
    /\ editMode' = "AddURL"
    /\ Key("enter", <<>>)
    /\ UNCHANGED <<storeVars, lastCall, heap, currentFolder, bookmarks, selectedBookmarks,
                   listCursor, activePane, hasPendingChanges>>

\* the object saveNewBookmark appends: no ID, no FK, no Parent
NewBookmark(title, url) ==
    [ID |-> 0, Type |-> TypeBookmark, FK |-> NULL, Parent |-> 0, Title |-> title,
     URL |-> url, Children |-> <<>>]

\* key enter in AddURL, title and url the texts of the two inputs
saveNewBookmark(title, url, failAt) ==
    /\ pc = "idle"
    /\ editMode = "AddURL"
    /\ currentFolder # 0
    /\ IF title = "" \/ url = ""
       THEN /\ Key("enter", <<>>)
            /\ UNCHANGED <<storeVars, heap, bookmarks, listCursor, editMode,
                           hasPendingChanges>>
       ELSE /\ staged < MaxStaged
            /\ AddBookmark(heap[currentFolder].ID, title, url, Now, failAt)
            /\ Key("enter", <<"AddBookmark">>)
            /\ editMode' = "EditNone"
            /\ IF mutErr' = "ok"
               THEN /\ heap' = [Append(heap, NewBookmark(title, url)) EXCEPT
                                  ![currentFolder].Children = Append(@, Len(heap) + 1)]
                    /\ bookmarks' = Append(bookmarks, Len(heap) + 1)
                    /\ listCursor' = Len(bookmarks)
                    /\ hasPendingChanges' = TRUE
               ELSE UNCHANGED <<heap, bookmarks, listCursor, hasPendingChanges>>
    /\ UNCHANGED <<lastCall, currentFolder, selectedBookmarks, activePane>>

\* key m in the list pane
toggleSelection ==
    /\ InMainKeys
    /\ activePane = "ListPane"
    /\ Len(bookmarks) > 0
    /\ listCursor < Len(bookmarks)
    /\ selectedBookmarks' =
          IF heap[Cursor].ID \in selectedBookmarks
          THEN selectedBookmarks \ {heap[Cursor].ID}
          ELSE selectedBookmarks \cup {heap[Cursor].ID}
    /\ Key("m", <<>>)
    /\ UNCHANGED <<storeVars, lastCall, heap, currentFolder, bookmarks, listCursor,
                   activePane, editMode, hasPendingChanges>>

RECURSIVE SqlDeleteAll(_, _)
SqlDeleteAll(db, ids) ==
    IF ids = {} THEN db
    ELSE LET id == CHOOSE x \in ids : TRUE
         IN  SqlDeleteAll(SqlDelete(db, id), ids \ {id})

RECURSIVE Remaining(_, _, _)
Remaining(h, list, keepAll) ==
    IF list = <<>> THEN <<>>
    ELSE (IF h[Head(list)].ID \notin selectedBookmarks \/ keepAll
          THEN <<Head(list)>> ELSE <<>>)
         \o Remaining(h, Tail(list), keepAll)

RECURSIVE Repeat(_, _)
Repeat(x, n) == IF n = 0 THEN <<>> ELSE <<x>> \o Repeat(x, n - 1)

\* key d in the list pane; failing: the ids whose DeleteBookmark returns an
\* error (all of them on a closed connection).  mutErr is "err" if one failed;
\* the record of the key names the ids whose DeleteBookmark returned nil.
deleteSelected(o, removeOk, failing) ==
    /\ InMainKeys
    /\ activePane = "ListPane"
    /\ selectedBookmarks # {}
    /\ IF conn = "nil" /\ (o # "ok" \/ copyFileErr(origFile, "ok"))
       THEN /\ CreateStaging(o, removeOk)
            /\ Key("d", <<"CreateStaging">>)
            /\ UNCHANGED <<bookmarks, selectedBookmarks, listCursor, hasPendingChanges>>
       ELSE LET copy      == IF conn = "nil" THEN copyFileDst(origFile, stagingFile, "ok")
                             ELSE stagingFile
                works     == conn \in {"nil", "open"} /\ IsDB(copy)
                deleted   == IF works THEN selectedBookmarks \ failing ELSE {}
                anyErr    == deleted # selectedBookmarks
                remaining == Remaining(heap, bookmarks, anyErr)
                n         == Cardinality(selectedBookmarks)
            IN  /\ staged + n <= MaxStaged
                /\ staged' = staged + n
                /\ stagingFile' = IF deleted = {} THEN copy
                                  ELSE DBFile(SqlDeleteAll(copy.db, deleted))
                /\ conn' = IF conn = "nil" THEN "open" ELSE conn
                /\ origAtCreate' = IF conn = "nil" THEN origFile ELSE origAtCreate
                /\ lastErr' = IF conn = "nil" THEN "none" ELSE lastErr
                /\ mutErr' = IF anyErr THEN "err" ELSE "ok"
                /\ UNCHANGED <<origFile, backupFile, pc, envVars, commitErr, callVars,
                               wroteBySwap, wroteByRestore>>
                /\ lastKey' = [key |-> "d",
                               calls |-> (IF conn = "nil" THEN <<"CreateStaging">> ELSE <<>>)
                                         \o Repeat("DeleteBookmark", n),
                               deleted |-> deleted]
                /\ deletedNodes' = deletedNodes \cup
                       {bookmarks[i] : i \in {j \in 1..Len(bookmarks) :
                                                  heap[bookmarks[j]].ID \in deleted}}
                /\ UNCHANGED <<editStart, navVars, collabVars>>
                /\ bookmarks' = remaining
                /\ selectedBookmarks' = {}
                /\ listCursor' = IF listCursor >= Len(remaining) /\ Len(remaining) > 0
                                 THEN Len(remaining) - 1 ELSE listCursor
                /\ hasPendingChanges' = TRUE
    /\ UNCHANGED <<lastCall, heap, currentFolder, activePane, editMode>>

\* key ctrl+s: commitChanges, if there are pending changes, calls Commit
KeyCtrlS(cmdFails) ==
    /\ InMainKeys
    /\ hasPendingChanges
    /\ IF conn = "nil" THEN UNCHANGED storeVars ELSE CommitLiveness(cmdFails)
    /\ Key("ctrl+s", IF conn = "nil" THEN <<>> ELSE <<"Commit">>)
    /\ UNCHANGED <<lastCall, heap, currentFolder, bookmarks, selectedBookmarks, listCursor,
                   activePane, editMode, hasPendingChanges>>

\* (mutant) commitChanges keeps the store it has committed
commitChangesUI_KeepStore ==
    /\ pc = "return"
    /\ pc' = "idle"
    /\ hasPendingChanges' = IF commitErr = "ok" THEN FALSE ELSE hasPendingChanges
    /\ UNCHANGED <<fileVars, conn, envVars, commitErr, mutErr, staged, histVars, lastErr>>
    /\ lastKey' = NoKey
    /\ UNCHANGED <<lastCall, heap, currentFolder, bookmarks, selectedBookmarks, listCursor,
                   activePane, editMode, editStart, deletedNodes, navVars, collabVars>>

\* Commit has returned to commitChanges
commitChangesUI ==
    /\ commitChanges
    /\ hasPendingChanges' = IF commitErr = "ok" THEN FALSE ELSE hasPendingChanges
    /\ lastKey' = NoKey
    /\ UNCHANGED <<lastCall, heap, currentFolder, bookmarks, selectedBookmarks, listCursor,
                   activePane, editMode, editStart, deletedNodes, navVars, collabVars>>

\* keys ctrl+c, Q and q of the main switch
KeyQuitUI(closeFails, removeOk) ==
    /\ InMainKeys
    /\ KeyQuit(closeFails, removeOk)
    /\ Key("Q", IF conn = "nil" THEN <<>> ELSE <<"Close">>)
    /\ UNCHANGED <<lastCall, heap, currentFolder, bookmarks, selectedBookmarks, listCursor,
                   activePane, editMode, hasPendingChanges>>

KeyQUI(closeFails, removeOk) ==
    /\ InMainKeys
    /\ KeyQ(hasPendingChanges, closeFails, removeOk)
    /\ Key("q", IF conn = "nil" \/ hasPendingChanges THEN <<>> ELSE <<"Close">>)
    /\ UNCHANGED <<lastCall, heap, currentFolder, bookmarks, selectedBookmarks, listCursor,
                   activePane, editMode, hasPendingChanges>>

\* the outcomes of I/O taken in the UI session
UICreateOutcomes == {"ok", "copy_err", "pragma_err"}
UICopyOutcomes   == {"ok", "copy_err"}
Inputs(S)        == S \cup {""}

NextUI ==
    \/ togglePane
    \/ cursorDown
    \/ cursorUp
    \/ toggleOrSelectFolder
    \/ \E o \in UICreateOutcomes : enterEditMode(o, TRUE)
    \/ \E o \in UICreateOutcomes : enterAddMode(o, TRUE)
    \/ KeyEsc
    \/ \E t \in Inputs(Titles), f \in BOOLEAN : saveTitle(t, f)
    \/ \E u \in Inputs(Urls), f \in BOOLEAN : saveURL(u, f)
    \/ saveNewTitle
    \/ \E t \in Inputs(NewTitles), u \in Inputs(Urls), failAt \in {"none", "commit"} :
           saveNewBookmark(t, u, failAt)
    \/ toggleSelection
    \/ \E o \in UICreateOutcomes, failing \in SUBSET selectedBookmarks :
           deleteSelected(o, TRUE, failing)
    \/ \E cmdFails \in BOOLEAN : KeyCtrlS(cmdFails)
    \/ \E closeFails \in BOOLEAN : CommitRelease(closeFails) /\ NoKeyHandled
    \/ \E o \in UICopyOutcomes : CommitBackup(o) /\ NoKeyHandled
    \/ \E ok \in BOOLEAN : CommitSwap(ok) /\ NoKeyHandled
    \/ CommitRestore(TRUE) /\ NoKeyHandled
    \/ CommitCleanup(TRUE) /\ NoKeyHandled
    \/ commitChangesUI
    \/ \E removeOk \in BOOLEAN : KeyQuitUI(FALSE, removeOk)
    \/ \E removeOk \in BOOLEAN : KeyQUI(FALSE, removeOk)
    \/ \E p \in Browsers : BrowserStart(p) /\ NoKeyHandled
    \/ BrowserStop /\ NoKeyHandled

\* the program has loaded the source file on linux, no store exists
InitSession ==
    /\ origFile = DBFile(InitialDB)
    /\ stagingFile = Absent
    /\ backupFile = Absent
    /\ conn = "nil"
    /\ pc = "idle"
    /\ goos = "linux"
    /\ procs \in {"none"} \cup Browsers
    /\ commitErr = "none"
    /\ mutErr = "none"
    /\ staged = 0
    /\ prevErr = "none"
    /\ guardSeen = FALSE
    /\ queryErr = FALSE
    /\ restoreErr = FALSE
    /\ removeErr = FALSE
    /\ origAtCreate = Absent
    /\ origAtCommit = Absent
    /\ stagedAtCommit = Absent
    /\ wroteBySwap = FALSE
    /\ wroteByRestore = FALSE
    /\ lastErr = "none"
    /\ lastCall = NoCall
    /\ InitUI

SpecUI == InitSession /\ [][NextUI]_vars

----------------------------------------------------------------------------
(* Properties of the commit protocol *)

InCommit   == pc \in {"release", "backup", "swap", "restore", "cleanup", "return"}
Returned   == pc = "return"
\* a step in which Commit is called (and its liveness check made)
CommitCall == pc = "idle" /\ pc' \in {"release", "return"}
\* a step in which the held store is discarded without having been committed
Discard    == pc = "idle" /\ conn # "nil" /\ conn' = "nil"

\* C1: while Commit runs, the original path holds either the complete content
\* it had when Commit was called or the complete staged content, never a
\* partial file; when Commit returns success it holds the staged content.
C1_Atomicity ==
    /\ IsDB(origFile)
    /\ InCommit => origFile \in {origAtCommit, stagedAtCommit}
    /\ (Returned /\ commitErr = "ok") => origFile = stagedAtCommit

C1_Witness ==
    Returned /\ commitErr = "ok" /\ origFile # origAtCommit /\ staged > 0

\* C2: a Commit whose liveness guard reports the browser running returns the
\* locked error at once: no file is touched (original, staging copy, backup)
\* and the connection is left as it was.
C2_GuardedCommit ==
    [][(CommitCall /\ guardSeen')
         => (pc' = "return" /\ commitErr' = "locked" /\ UNCHANGED <<fileVars, conn>>)]_vars

\* after the refusal a mutation of the same store has succeeded
C2_Witness ==
    pc = "idle" /\ conn = "open" /\ commitErr = "locked" /\ mutErr = "ok"

\* C3: discarding a store (Rollback, Close, the quit keys) leaves the original
\* file with the content it had when the store was created.
C3_RollbackPurity ==
    [][Discard => (origFile' = origAtCreate /\ origFile' = origFile)]_vars

\* a store with a staged mutation has been discarded
C3_Witness ==
    conn = "nil" /\ mutErr = "ok" /\ stagingFile = Absent /\ IsDB(origFile)

\* C4: a Commit that fails at the liveness, release, backup or swap step (the
\* restore having succeeded) leaves the original's content as it was when
\* Commit was called, and so does every step before a successful swap.
C4_FailedCommitKeepsOriginal ==
    /\ (Returned /\ commitErr \in {"locked", "close", "backup", "swap"} /\ ~restoreErr)
          => origFile = origAtCommit
    /\ pc \in {"release", "backup", "swap", "restore"} => origFile = origAtCommit

C4_Witness ==
    Returned /\ commitErr = "swap" /\ ~restoreErr /\ stagingFile # origFile

\* C5 (as claimed): after a Commit failed at the backup step the original and
\* the staging copy are unchanged and the store is usable, i.e. its
\* connection is open so that mutations succeed.
C5_UsableAfterBackupFailure ==
    (pc \in {"return", "idle"} /\ commitErr = "backup")
        => (origFile = origAtCreate /\ IsDB(stagingFile) /\ conn = "open")

\* C6 (as claimed): a Commit whose swap and restore both failed returns an
\* error other than the one returned when the swap failed and the restore
\* succeeded (which is "swap").
C6_RestoreFailureDistinct ==
    (Returned /\ restoreErr) => commitErr # "swap"

\* C7 (as claimed): the source path is written at most once in the lifetime of
\* a store, by the swap; until then its content is that at CreateStaging.
C7_WrittenOnceBySwap ==
    /\ (conn # "nil" /\ ~wroteBySwap) => origFile = origAtCreate
    /\ ~wroteByRestore

\* C7 (amended): until the swap succeeds the content of the source path is
\* that at CreateStaging, and only a successful swap changes it, at most
\* once in the lifetime of a store.
C7_ContentChangedOnceBySwap ==
    /\ [](( conn # "nil" /\ ~wroteBySwap) => origFile = origAtCreate)
    /\ [][origFile' # origFile => (pc = "swap" /\ ~wroteBySwap /\ wroteBySwap')]_vars

\* the restore rename has rewritten the source path of a store with staged changes
C7_Witness ==
    wroteByRestore /\ conn = "closed" /\ stagingFile # origFile /\ origFile = origAtCreate

\* C8: the swap is attempted only after the liveness check passed, the
\* connection was closed and a complete copy of the current original is at
\* the backup path; release follows the check, backup follows release, and
\* cleanup follows a successful swap.
C8_StepOrder ==
    /\ pc \in {"release", "backup", "swap", "restore", "cleanup"} => ~guardSeen
    /\ pc \in {"backup", "swap", "restore", "cleanup"} => conn = "closed"
    /\ pc = "swap" => (IsDB(backupFile) /\ backupFile = origFile)
    /\ pc = "cleanup" => wroteBySwap

C8_Witness ==
    pc = "swap" /\ stagingFile # origFile /\ IsDB(stagingFile)

\* C9 (as claimed): after a Commit that returns success no file is at the
\* backup path.
C9_NoBackupAfterCommit ==
    (Returned /\ commitErr = "ok") => backupFile = Absent

\* C9 (amended): ... unless the removal of the backup failed.
C9_NoBackupUnlessRemoveFailed ==
    (Returned /\ commitErr = "ok" /\ ~removeErr) => backupFile = Absent

C9_Witness ==
    Returned /\ commitErr = "ok" /\ ~removeErr /\ backupFile = Absent

\* C10 (as claimed): a Commit attempted while the browser is running fails.
C10_RunningAlwaysRefused ==
    [][(CommitCall /\ procs # "none") => commitErr' = "locked"]_vars

\* C10 (amended): the result of the guard is that of a query made in this
\* attempt, whatever earlier attempts returned: a Commit attempted while the
\* browser is not running is not refused, and one attempted while it is
\* running is refused if the platform is supported and the query succeeded.
C10_FreshLiveness ==
    [][CommitCall =>
          /\ procs = "none" => (~guardSeen' /\ pc' = "release")
          /\ (procs # "none" /\ goos \in {"linux", "darwin", "windows"} /\ ~queryErr')
                => (guardSeen' /\ commitErr' = "locked")]_vars

\* a store refused while the browser ran is committed once it has stopped
C10_Witness ==
    Returned /\ prevErr = "locked" /\ commitErr = "ok" /\ procs = "none"

\* C11: the liveness guard is consulted once, when Commit is called: the steps
\* after the check go on whether or not the browser has started meanwhile;
\* none of them refuses the commit or changes the recorded result of the guard,
\* and with a complete backup in place the swap renames the staging copy over
\* the original although the browser is running.
C11_GuardCheckedOnce ==
    [][(pc \in {"release", "backup", "swap", "restore", "cleanup"})
          => /\ guardSeen' = guardSeen
             /\ commitErr' # "locked"
             /\ (pc = "swap" /\ procs # "none" /\ origFile' # origFile)
                   => (origFile' = stagedAtCommit /\ pc' = "cleanup")]_vars

\* the check passed with the browser not running (the query succeeded), the
\* browser started, and the commit went through
C11_Witness ==
    /\ Returned /\ commitErr = "ok" /\ procs # "none"
    /\ goos = "windows" /\ ~queryErr /\ ~guardSeen
    /\ origFile = stagedAtCommit /\ origFile # origAtCommit

C15_NoFileAfterFailedCreate ==
    lastErr \in {"create_copy", "create_open", "create_pragma"} => stagingFile = Absent

----------------------------------------------------------------------------
(* Properties of the mutation operations *)

\* a step in which the operation op is called
Called(op) == staged' # staged /\ lastCall'.op = op

C18_SameValueNoChange ==
    [][/\ (/\ Called("UpdateBookmarkTitle") /\ mutErr' = "ok"
            /\ \E r \in StagingRows.bookmarks :
                  r.id = lastCall'.bookmarkID /\ r.title = lastCall'.newTitle)
          => stagingFile' = stagingFile
       /\ (/\ Called("UpdateBookmarkURL") /\ mutErr' = "ok"
            /\ \E q \in StagingRows.places :
                  q.id = lastCall'.placeID /\ q.url = lastCall'.newURL)
          => stagingFile' = stagingFile]_vars

\* C19: an AddBookmark that succeeds inserts one row, under the given parent,
\* at the position after the largest position among the rows of that parent,
\* and at position 0 if the parent has no rows.
C19_AddAtEnd ==
    [][(Called("AddBookmark") /\ mutErr' = "ok") =>
          LET old == StagingRows.bookmarks
              new == stagingFile'.db.bookmarks \ old
              sib == {r \in old : r.parent = lastCall'.parentID}
          IN  /\ Cardinality(new) = 1
              /\ stagingFile'.db.bookmarks = old \cup new
              /\ \A r \in new :
                    /\ r.parent = lastCall'.parentID
                    /\ r.type = TypeBookmark
                    /\ r.position = IF sib = {} THEN 0
                                    ELSE 1 + Max({x.position : x \in sib})]_vars

\* a bookmark was added after a sibling that is not at position 0
C19_Witness ==
    /\ lastCall.op = "AddBookmark" /\ mutErr = "ok"
    /\ \E r \in StagingRows.bookmarks, x \in StagingRows.bookmarks :
          /\ r.id = Max({y.id : y \in StagingRows.bookmarks})
          /\ r.parent = lastCall.parentID /\ x.parent = r.parent
          /\ x.position > 0 /\ r.position = x.position + 1

\* the URL records with the URL u
WithURL(places, u) == {q \in places : q.url = u}

----------------------------------------------------------------------------
(* Properties of the UI session *)

MutationKeys == {"e", "n", "d"}

\* C12: in the UI session a store comes into being, and a staging file
\* appears, only in the handling of e, n or d; CreateStaging is called only
\* by these handlers and only when no store is held, so at most one store is
\* open at any moment.
C12_StoreCreatedLazily ==
    [][ /\ (conn = "nil" /\ conn' # "nil") =>
             (lastKey'.key \in MutationKeys /\ Calls(lastKey', "CreateStaging"))
        /\ (stagingFile = Absent /\ stagingFile' # Absent) =>
             lastKey'.key \in MutationKeys
        /\ Calls(lastKey', "CreateStaging") =>
             (conn = "nil" /\ lastKey'.key \in MutationKeys)
        /\ (conn' = "open" /\ conn # "open") => conn = "nil" ]_vars

\* a mutation is requested while a store is held, and none is created
C12_Witness ==
    /\ conn = "open"
    /\ staged > 0
    /\ lastKey = [key |-> "e", calls |-> <<>>]
    /\ editMode = "EditTitle"

\* C13: when a successful Commit returns, the UI drops the store and clears
\* hasPendingChanges; no store call is made without a store, and the store
\* that the next mutation request creates starts as a copy of the source file
\* as it is then, the committed one (for d, that copy less the rows deleted
\* in the same handling).
C13_NewStoreAfterCommit ==
    [][ /\ (pc = "return" /\ commitErr = "ok" /\ pc' = "idle") =>
             (conn' = "nil" /\ ~hasPendingChanges')
        /\ (conn = "nil" /\ lastKey'.calls # <<>>) =>
             Head(lastKey'.calls) = "CreateStaging"
        /\ (conn = "nil" /\ conn' = "open") =>
             /\ origAtCreate' = origFile
             /\ origFile' = origFile
             /\ lastKey'.key \in {"e", "n"} => stagingFile' = origFile
             /\ lastKey'.key = "d" =>
                  /\ IsDB(stagingFile')
                  /\ stagingFile'.db.places = origFile.db.places
                  /\ stagingFile'.db.bookmarks \subseteq origFile.db.bookmarks ]_vars

\* a second store, created after a Commit that changed the source file
C13_Witness ==
    /\ conn = "open"
    /\ pc = "idle"
    /\ ~hasPendingChanges
    /\ origFile # DBFile(InitialDB)
    /\ origAtCreate = origFile
    /\ stagingFile = origFile
    /\ Calls(lastKey, "CreateStaging")

\* the tree that loading the staging copy builds
Reloaded == BuildTree(FetchAllBookmarks(stagingFile.db))

\* C16: while a store is held and no handler is running, the tree held by the
\* UI has the same nodes, with the same ids, parents, titles and URLs, as the
\* tree rebuilt from the staging copy.
C16_TreeMatchesCopy ==
    (conn = "open" /\ pc = "idle" /\ IsDB(stagingFile)) =>
        TreeView(heap, root) = TreeView(Reloaded, RootOf(Reloaded))

----------------------------------------------------------------------------
(* Invariants of the data model, on the staging copy *)

\* no two URL records with the same url
UniqueURLs(db) == \A p \in db.places, q \in db.places : p.url = q.url => p.id = q.id

\* the URL records a bookmark row refers to
PlacesOf(db, r) == {p \in db.places : p.id = r.fk}

\* C21: in the staging copy no two URL records hold the same url, and the
\* place reference of every bookmark row resolves to exactly one URL record.
C21_UniqueURL ==
    IsDB(stagingFile) =>
        /\ UniqueURLs(StagingRows)
        /\ \A r \in StagingRows.bookmarks :
              r.type = TypeBookmark => Cardinality(PlacesOf(StagingRows, r)) = 1

\* the rows without a parent
Roots(db) == {r \in db.bookmarks : r.parent = 0}

\* following parent ids from the row with this id reaches a row without a
\* parent in at most n steps
RECURSIVE ReachesRoot(_, _, _)
ReachesRoot(db, id, n) ==
    \E r \in db.bookmarks :
        /\ r.id = id
        /\ \/ r.parent = 0
           \/ n > 0 /\ ReachesRoot(db, r.parent, n - 1)

\* one root, no cycle, and every other row under an existing folder
SingleRootedTree(db) ==
    /\ Cardinality(Roots(db)) = 1
    /\ \A r \in db.bookmarks : ReachesRoot(db, r.id, Cardinality(db.bookmarks))
    /\ \A r \in db.bookmarks \ Roots(db) :
          \E f \in db.bookmarks : f.id = r.parent /\ f.type = TypeFolder

\* C22: the rows of the staging copy form a single rooted tree.
C22_SingleRootedTree == IsDB(stagingFile) => SingleRootedTree(StagingRows)

\* no two rows of the same parent at the same position
UniquePositions(db) ==
    \A r \in db.bookmarks, x \in db.bookmarks :
        (r.parent = x.parent /\ r.position = x.position) => r.id = x.id

\* C23: in the staging copy no two rows with the same parent have the same
\* position.
C23_UniqueSiblingPositions == IsDB(stagingFile) => UniquePositions(StagingRows)

\* C24: every node of the tree held by the UI has an id assigned by the store
\* (rowids start at 1; 0 is the value of a field never set), no two nodes
\* have the same id, and no step changes the id of a node.
C24_NodeIds ==
    /\ [](\A i \in DOMAIN heap :
             /\ heap[i].ID # 0
             /\ \A j \in DOMAIN heap : heap[i].ID = heap[j].ID => i = j)
    /\ [][\A i \in DOMAIN heap : i \in DOMAIN heap' /\ heap'[i].ID = heap[i].ID]_vars

\* the place reference of a row or node of this type is as the type requires
PlaceRefOK(type, fk) ==
    /\ type = TypeBookmark => fk # NULL
    /\ type = TypeFolder => fk = NULL

\* C25: every bookmark, in the staging copy and in the tree held by the UI,
\* has a place reference, and every folder has none.
C25_PlaceRefByKind ==
    /\ \A r \in StagingRows.bookmarks : PlaceRefOK(r.type, r.fk)
    /\ \A i \in DOMAIN heap : PlaceRefOK(heap[i].Type, heap[i].FK)

----------------------------------------------------------------------------
(* Properties of DeleteBookmark and FindOrCreateScratchFolder *)

\* C26: a DeleteBookmark that succeeds for the id of a bookmark row removes
\* that one row; the other rows and all URL records, also the one the row
\* referred to, are as before.
C26_DeleteOnlyTheRow ==
    [][(/\ Called("DeleteBookmark") /\ mutErr' = "ok"
        /\ \E r \in StagingRows.bookmarks :
              r.id = lastCall'.bookmarkID /\ r.type = TypeBookmark) =>
          LET old == StagingRows
              new == stagingFile'.db
          IN  /\ new.places = old.places
              /\ new.bookmarks \subseteq old.bookmarks
              /\ old.bookmarks \ new.bookmarks =
                    {r \in old.bookmarks : r.id = lastCall'.bookmarkID}
              /\ Cardinality(old.bookmarks \ new.bookmarks) = 1]_vars

\* the only bookmark that referred to the URL record 1 was deleted, and the
\* record is still there
C26_Witness ==
    /\ lastCall.op = "DeleteBookmark" /\ mutErr = "ok"
    /\ lastCall.bookmarkID = 3
    /\ \A r \in StagingRows.bookmarks : r.id # 3 /\ r.fk # 1
    /\ \E p \in StagingRows.places : p.id = 1
    /\ \E r \in origFile.db.bookmarks : r.id = 3 /\ r.fk = 1

\* C27: DeleteBookmark removes no row of kind Folder, so no row is left
\* under a parent that DeleteBookmark removed.
C27_NoFolderDeleted ==
    [][Called("DeleteBookmark") =>
          \A r \in StagingRows.bookmarks :
              r.type = TypeFolder => r \in stagingFile'.db.bookmarks]_vars

\* the folders titled Scratch, and the rows with the GUID of the menu root
ScratchRows(db) == {r \in db.bookmarks : r.type = TypeFolder /\ r.title = "Scratch"}
MenuRows(db)    == {r \in db.bookmarks : r.guid = "menu________"}

\* a successful FindOrCreateScratchFolder: without a folder titled Scratch it
\* inserts one, under the menu root and after its last child; with one it
\* inserts nothing; it returns the id of a folder titled Scratch
ScratchFoundOrCreated(old, new, id) ==
    /\ new.places = old.places
    /\ old.bookmarks \subseteq new.bookmarks
    /\ \E f \in ScratchRows(new) : f.id = id
    /\ ScratchRows(old) # {} => new = old
    /\ ScratchRows(old) = {} =>
          /\ Cardinality(new.bookmarks \ old.bookmarks) = 1
          /\ \A f \in new.bookmarks \ old.bookmarks :
                /\ f.id = id /\ f.type = TypeFolder /\ f.title = "Scratch"
                /\ \E m \in MenuRows(old) :
                      /\ f.parent = m.id
                      /\ f.position = MaxPositionOf(old, m.id) + 1

\* C28 (as claimed): FindOrCreateScratchFolder creates the Scratch folder if there is
\* none, under the menu root and at the end of its children, and creates
\* nothing if there is one; it returns the id of the Scratch folder, which
\* is the only one and lies under the menu root.
C28_ScratchUnderMenuRoot ==
    [][(Called("FindOrCreateScratchFolder") /\ mutErr' = "ok") =>
          LET old == StagingRows
              new == stagingFile'.db
          IN  /\ ScratchFoundOrCreated(old, new, lastCall'.id)
              /\ Cardinality(ScratchRows(new)) = 1
              /\ \A f \in ScratchRows(new) :
                    \E m \in MenuRows(new) : f.parent = m.id]_vars

\* C28 (amended): the folder found is a folder titled Scratch wherever it
\* lies in the tree.  A successful call creates the folder under the menu root,
\* after its last child, when there is no folder with that title, and creates
\* nothing when there is one; a call right after a successful call returns
\* the same id and changes nothing.
C28_ScratchIdempotent ==
    [][(Called("FindOrCreateScratchFolder") /\ mutErr' = "ok") =>
          /\ ScratchFoundOrCreated(StagingRows, stagingFile'.db, lastCall'.id)
          /\ (lastCall.op = "FindOrCreateScratchFolder" /\ mutErr = "ok") =>
                (lastCall'.id = lastCall.id /\ stagingFile' = stagingFile)]_vars

\* the second of two successful calls: it returns the folder that the first
\* one created under the menu root, the only one titled Scratch
C28_Witness ==
    /\ lastCall.op = "FindOrCreateScratchFolder" /\ mutErr = "ok" /\ staged = 2
    /\ ScratchRows(origFile.db) = {}
    /\ Cardinality(ScratchRows(StagingRows)) = 1
    /\ \E f \in ScratchRows(StagingRows) :
          /\ f.id = lastCall.id /\ f.dateAdded = 1
          /\ \E m \in MenuRows(StagingRows) : f.parent = m.id /\ f.position = 1

----------------------------------------------------------------------------
(* The link audit and the duplicate scan.  Each runs as a command beside
   Update and hands its result back as a message; Update handles a message
   between two keys, never inside a Commit. *)

MaxScans == 2       \* audits and duplicate scans started in one session

\* the modes whose handler returns for every message, so that a message of a
\* command is dropped there
InputModes == {"EditTitle", "EditURL", "AddTitle", "AddURL"}

RECURSIVE collectBookmarks(_, _)
RECURSIVE collectChildren(_, _)
\* (mutant) every bookmark node is collected, with a URL or without
collectBookmarks_NoURLCheck(h, node) ==
    (IF h[node].Type = TypeBookmark THEN <<node>> ELSE <<>>)
    \o collectChildren(h, h[node].Children)

\* collectBookmarks: the bookmark nodes with a URL, in the order of the walk
collectBookmarks(h, node) ==
    (IF h[node].Type = TypeBookmark /\ h[node].URL # "" THEN <<node>> ELSE <<>>)
    \o collectChildren(h, h[node].Children)

collectChildren(h, children) ==
    IF children = <<>> THEN <<>>
    ELSE collectBookmarks(h, Head(children)) \o collectChildren(h, Tail(children))

\* the bookmark rows joined to the URL records with the URL u
RowsWithURL(db, u) ==
    {b.id : b \in {x \in db.bookmarks :
                      x.fk # NULL /\ \E p \in db.places : p.id = x.fk /\ p.url = u}}

\* (mutant) the rows are grouped by the URL record they refer to
FindDuplicates_ByPlace(db) ==
    {[URL |-> p.url, Bookmarks |-> {b.id : b \in {x \in db.bookmarks : x.fk = p.id}}] :
        p \in {q \in db.places : Cardinality({x \in db.bookmarks : x.fk = q.id}) > 1}}

\* FindDuplicates: the URLs that more than one bookmark row is joined to, each
\* with the ids of its rows
FindDuplicates(db) ==
    {[URL |-> u, Bookmarks |-> RowsWithURL(db, u)] :
        u \in {p.url : p \in {x \in db.places : Cardinality(RowsWithURL(db, x.url)) > 1}}}

\* the summary of a group: "url (n duplicates)"
Summary(g) == [url |-> g.URL, duplicates |-> Cardinality(g.Bookmarks)]

\* key a: startAudit
startAudit ==
    /\ InMainKeys
    /\ editMode = "EditNone"
    /\ editMode' = "AuditMode"
    /\ auditInProgress' = TRUE
    /\ auditRunning' = auditRunning + 1
    /\ scans' = scans + 1
    /\ auditResults' = <<>>
    /\ lastKey' = [key |-> "a", calls |-> <<>>]
    /\ UNCHANGED <<editStart, deletedNodes, navVars, auditVars, auditReport>>
    /\ UNCHANGED <<storeVars, lastCall, heap, currentFolder, bookmarks, selectedBookmarks,
                   listCursor, activePane, hasPendingChanges, dedupScanning, dedupGroups,
                   auditMsgs, auditSeen, dedupRunning, dedupMsgs>>

\* the command of runAudit: AuditAll walks the tree under m.root, the results
\* (status[i] the status of the i-th) are received and dropped, and
\* auditCompleteMsg is returned
runAudit(status) ==
    /\ auditRunning > 0
    /\ auditRunning' = auditRunning - 1
    /\ LET bs == collectBookmarks(heap, root)
       IN  /\ status \in [1..Len(bs) -> Statuses]
           /\ auditSeen' = [i \in 1..Len(bs) |-> [Bookmark |-> bs[i], Status |-> status[i]]]
    /\ auditMsgs' = auditMsgs + 1
    /\ lastKey' = NoKey
    /\ UNCHANGED <<editStart, deletedNodes, navVars, auditVars, auditResults, auditReport>>
    /\ UNCHANGED <<storeVars, lastCall, heap, currentFolder, bookmarks, selectedBookmarks,
                   listCursor, activePane, editMode, hasPendingChanges, auditInProgress,
                   dedupScanning, dedupGroups, dedupRunning, dedupMsgs, scans>>

\* Update with auditCompleteMsg
auditComplete ==
    /\ pc = "idle"
    /\ auditMsgs > 0
    /\ auditMsgs' = auditMsgs - 1
    /\ auditInProgress' = IF editMode \in InputModes THEN auditInProgress ELSE FALSE
    /\ auditReport' = IF editMode \in InputModes THEN auditReport
                      ELSE Cardinality({id \in DOMAIN auditResults :
                                           auditResults[id] = "DEAD"})
    /\ lastKey' = NoKey
    /\ UNCHANGED <<editStart, deletedNodes, navVars, auditVars, auditResults>>
    /\ UNCHANGED <<storeVars, lastCall, heap, currentFolder, bookmarks, selectedBookmarks,
                   listCursor, activePane, editMode, hasPendingChanges, dedupScanning,
                   dedupGroups, auditRunning, auditSeen, dedupRunning, dedupMsgs, scans>>

\* a key in AuditMode once the audit is over
leaveAuditMode ==
    /\ pc = "idle"
    /\ editMode = "AuditMode"
    /\ ~auditInProgress
    /\ editMode' = "EditNone"
    /\ Key("any", <<>>)
    /\ UNCHANGED <<storeVars, lastCall, heap, currentFolder, bookmarks, selectedBookmarks,
                   listCursor, activePane, hasPendingChanges>>

\* key D: startDedup
startDedup ==
    /\ InMainKeys
    /\ editMode = "EditNone"
    /\ editMode' = "DedupMode"
    /\ dedupScanning' = TRUE
    /\ dedupGroups' = {}
    /\ dedupRunning' = dedupRunning + 1
    /\ scans' = scans + 1
    /\ lastKey' = [key |-> "D", calls |-> <<>>]
    /\ UNCHANGED <<editStart, deletedNodes, navVars, auditVars, auditResults, auditReport>>
    /\ UNCHANGED <<storeVars, lastCall, heap, currentFolder, bookmarks, selectedBookmarks,
                   listCursor, activePane, hasPendingChanges, auditInProgress,
                   auditRunning, auditMsgs, auditSeen, dedupMsgs>>

\* what the command finds in the file f opened read-only
dedupResultMsg(f, openFails, queryFails) ==
    IF openFails \/ ~IsDB(f) THEN [groups |-> {}, err |-> "open"]
    ELSE IF queryFails THEN [groups |-> {}, err |-> "query"]
    ELSE [groups |-> FindDuplicates(f.db), err |-> "none"]

\* (mutant) the command opens the staging copy when there is one
runDedup_Staging(openFails, queryFails) ==
    /\ dedupRunning > 0
    /\ dedupRunning' = dedupRunning - 1
    /\ dedupMsgs' = Append(dedupMsgs,
                           dedupResultMsg(IF IsDB(stagingFile) THEN stagingFile ELSE origFile,
                                          openFails, queryFails))
    /\ lastKey' = NoKey
    /\ UNCHANGED <<editStart, deletedNodes, navVars, auditVars, auditResults, auditReport>>
    /\ UNCHANGED <<storeVars, lastCall, heap, currentFolder, bookmarks, selectedBookmarks,
                   listCursor, activePane, editMode, hasPendingChanges, auditInProgress,
                   dedupScanning, dedupGroups, auditRunning, auditMsgs, auditSeen, scans>>

\* the command of runDedup: OpenReadOnly(m.dbPath), FindDuplicates, Close
runDedup(openFails, queryFails) ==
    /\ dedupRunning > 0
    /\ dedupRunning' = dedupRunning - 1
    /\ dedupMsgs' = Append(dedupMsgs, dedupResultMsg(origFile, openFails, queryFails))
    /\ lastKey' = NoKey
    /\ UNCHANGED <<editStart, deletedNodes, navVars, auditVars, auditResults, auditReport>>
    /\ UNCHANGED <<storeVars, lastCall, heap, currentFolder, bookmarks, selectedBookmarks,
                   listCursor, activePane, editMode, hasPendingChanges, auditInProgress,
                   dedupScanning, dedupGroups, auditRunning, auditMsgs, auditSeen, scans>>

\* Update with the i-th dedupResultMsg on its way
dedupResult(i) ==
    /\ pc = "idle"
    /\ i \in 1..Len(dedupMsgs)
    /\ dedupMsgs' = SubSeq(dedupMsgs, 1, i - 1) \o SubSeq(dedupMsgs, i + 1, Len(dedupMsgs))
    /\ IF editMode \in InputModes
       THEN UNCHANGED <<editMode, dedupScanning, dedupGroups>>
       ELSE /\ dedupScanning' = FALSE
            /\ IF dedupMsgs[i].err # "none"
               THEN editMode' = "EditNone" /\ UNCHANGED dedupGroups
               ELSE /\ dedupGroups' = {Summary(g) : g \in dedupMsgs[i].groups}
                    /\ UNCHANGED editMode
    /\ lastKey' = NoKey
    /\ UNCHANGED <<editStart, deletedNodes, navVars, auditVars, auditResults, auditReport>>
    /\ UNCHANGED <<storeVars, lastCall, heap, currentFolder, bookmarks, selectedBookmarks,
                   listCursor, activePane, hasPendingChanges, auditInProgress,
                   auditRunning, auditMsgs, auditSeen, dedupRunning, scans>>

\* a key in DedupMode while it scans: Update returns at once
ignoredKey ==
    /\ pc = "idle"
    /\ editMode = "DedupMode"
    /\ dedupScanning
    /\ Key("any", <<>>)
    /\ UNCHANGED <<storeVars, lastCall, heap, currentFolder, bookmarks, selectedBookmarks,
                   listCursor, activePane, editMode, hasPendingChanges>>

\* a key other than j and k in DedupMode once the scan is over
leaveDedupMode ==
    /\ pc = "idle"
    /\ editMode = "DedupMode"
    /\ ~dedupScanning
    /\ editMode' = "EditNone"
    /\ Key("any", <<>>)
    /\ UNCHANGED <<storeVars, lastCall, heap, currentFolder, bookmarks, selectedBookmarks,
                   listCursor, activePane, hasPendingChanges>>

\* a session with audits and duplicate scans
NextScan ==
    \/ togglePane
    \/ \E o \in UICopyOutcomes : enterAddMode(o, TRUE)
    \/ KeyEsc
    \/ saveNewTitle
    \/ \E u \in Urls, failAt \in {"none", "commit"} : saveNewBookmark("t1", u, failAt)
    \/ KeyCtrlS(FALSE)
    \/ CommitRelease(FALSE) /\ NoKeyHandled
    \/ \E o \in UICopyOutcomes : CommitBackup(o) /\ NoKeyHandled
    \/ \E ok \in BOOLEAN : CommitSwap(ok) /\ NoKeyHandled
    \/ CommitRestore(TRUE) /\ NoKeyHandled
    \/ CommitCleanup(TRUE) /\ NoKeyHandled
    \/ commitChangesUI
    \/ scans < MaxScans /\ startAudit
    \/ \E st \in Statuses :
           runAudit([i \in 1..Len(collectBookmarks(heap, root)) |-> st])
    \/ auditComplete
    \/ leaveAuditMode
    \/ scans < MaxScans /\ startDedup
    \/ \E openFails, queryFails \in BOOLEAN : runDedup(openFails, queryFails)
    \/ \E i \in 1..Len(dedupMsgs) : dedupResult(i)
    \/ ignoredKey
    \/ leaveDedupMode

SpecScan == InitSession /\ [][NextScan]_vars

----------------------------------------------------------------------------
(* Properties of the link audit and the duplicate scan *)

\* a step of the audit or of the scan: a start key, a command, a message
\* handled, a key that leaves the mode
ScanStep == scanVars' # scanVars \/ lastKey'.key = "any"

\* C29: the link audit and the duplicate scan never write to the staging copy
\* and never open it: the scan reads the source file, opened read-only, and the
\* audit reads the tree in memory; no step of either changes the staging copy,
\* the source file, the held store or hasPendingChanges.
C29_ScansReadOnly ==
    [][ScanStep =>
          /\ UNCHANGED <<fileVars, conn, hasPendingChanges>>
          /\ dedupRunning' < dedupRunning =>
                LET msg == dedupMsgs'[Len(dedupMsgs')]
                IN  msg.err = "none" => msg.groups = FindDuplicates(origFile.db)
          /\ auditRunning' < auditRunning =>
                [i \in 1..Len(auditSeen') |-> auditSeen'[i].Bookmark]
                   = collectBookmarks(heap, root)]_vars

\* a scan has found no duplicate in the source file while the staging copy of
\* the held store has one, and an audit has checked the bookmark staged
C29_Witness ==
    /\ conn = "open"
    /\ hasPendingChanges
    /\ IsDB(stagingFile)
    /\ FindDuplicates(stagingFile.db) # {}
    /\ \E i \in 1..Len(dedupMsgs) : dedupMsgs[i].err = "none" /\ dedupMsgs[i].groups = {}
    /\ Len(auditSeen) = 2

----------------------------------------------------------------------------
(* Auditor.AuditAll: the goroutine it starts fills and closes the channel
   jobs, starts the workers, waits for them and closes resultChan; each worker
   checks the bookmarks it receives; runAudit consumes resultChan. *)

\* a source file with a second bookmark, a bookmark without a URL and a separator
AuditDB ==
    [bookmarks |-> InitialDB.bookmarks \cup
        {[id |-> 4, type |-> TypeBookmark, fk |-> 2, parent |-> 1, position |-> 1,
          title |-> "t1", dateAdded |-> 0, lastModified |-> 0, guid |-> "rand"],
         [id |-> 5, type |-> TypeBookmark, fk |-> NULL, parent |-> 2, position |-> 1,
          title |-> "t1", dateAdded |-> 0, lastModified |-> 0, guid |-> "rand"],
         [id |-> 6, type |-> TypeSeparator, fk |-> NULL, parent |-> 2, position |-> 2,
          title |-> "", dateAdded |-> 0, lastModified |-> 0, guid |-> "rand"]},
     places |-> InitialDB.places \cup
        {[id |-> 2, url |-> "u1", title |-> "t1", last_visit_date |-> 0]}]

AuditDBs == {InitialDB, AuditDB}

\* what the steps of AuditAll leave alone
auditFrame == <<storeVars, lastCall, uiVars, scanVars>>

\* AuditAll is called: resultChan is made, the goroutine started and the
\* channel returned to the caller, which ranges over it
AuditAll ==
    /\ apc = "idle"
    /\ apc' = "collect"
    /\ cpc' = "range"
    /\ UNCHANGED <<collected, jobs, jobsClosed, wg, wpc, wjob, wres, results, resultChan,
                   resultClosed, received, ctxDone, auditFrame>>

\* bookmarks := collectBookmarks(root); jobs is made with room for all of them
auditCollect ==
    /\ apc = "collect"
    /\ collected' = collectBookmarks(heap, root)
    /\ apc' = "fill"
    /\ UNCHANGED <<jobs, jobsClosed, wg, wpc, wjob, wres, results, resultChan,
                   resultClosed, cpc, received, ctxDone, auditFrame>>

\* jobs <- b, for the next of the bookmarks
auditFill ==
    /\ apc = "fill"
    /\ Len(jobs) < Len(collected)
    /\ jobs' = Append(jobs, collected[Len(jobs) + 1])
    /\ UNCHANGED <<apc, collected, jobsClosed, wg, wpc, wjob, wres, results, resultChan,
                   resultClosed, cpc, received, ctxDone, auditFrame>>

\* close(jobs)
auditCloseJobs ==
    /\ apc = "fill"
    /\ Len(jobs) = Len(collected)
    /\ jobsClosed' = TRUE
    /\ apc' = "spawn"
    /\ UNCHANGED <<collected, jobs, wg, wpc, wjob, wres, results, resultChan,
                   resultClosed, cpc, received, ctxDone, auditFrame>>

Spawned == Cardinality({w \in 1..Workers : wpc[w] # "none"})

\* wg.Add(1); go func() ..., for the next worker
auditSpawn ==
    /\ apc = "spawn"
    /\ Spawned < Workers
    /\ wg' = wg + 1
    /\ wpc' = [wpc EXCEPT ![Spawned + 1] = "range"]
    /\ UNCHANGED <<apc, collected, jobs, jobsClosed, wjob, wres, results, resultChan,
                   resultClosed, cpc, received, ctxDone, auditFrame>>

\* wg.Wait() returns and the deferred close(resultChan) runs
auditWait ==
    /\ apc = "spawn"
    /\ Spawned = Workers
    /\ wg = 0
    /\ resultClosed' = TRUE
    /\ apc' = "done"
    /\ UNCHANGED <<collected, jobs, jobsClosed, wg, wpc, wjob, wres, results, resultChan,
                   cpc, received, ctxDone, auditFrame>>

\* for bookmark := range jobs: the worker receives a bookmark, or leaves the
\* loop when the channel is closed and empty (wg.Done)
workerRange(w) ==
    /\ wpc[w] = "range"
    /\ IF jobs # <<>>
       THEN /\ wjob' = [wjob EXCEPT ![w] = Head(jobs)]
            /\ jobs' = Tail(jobs)
            /\ wpc' = [wpc EXCEPT ![w] = "select"]
            /\ UNCHANGED wg
       ELSE /\ jobsClosed
            /\ wpc' = [wpc EXCEPT ![w] = "done"]
            /\ wg' = wg - 1
            /\ UNCHANGED <<wjob, jobs>>
    /\ UNCHANGED <<apc, collected, jobsClosed, wres, results, resultChan, resultClosed,
                   cpc, received, ctxDone, auditFrame>>

\* select: case <-ctx.Done() returns (wg.Done), default goes on
workerSelect(w) ==
    /\ wpc[w] = "select"
    /\ IF ctxDone
       THEN wpc' = [wpc EXCEPT ![w] = "done"] /\ wg' = wg - 1
       ELSE wpc' = [wpc EXCEPT ![w] = "check"] /\ UNCHANGED wg
    /\ UNCHANGED <<apc, collected, jobs, jobsClosed, wjob, wres, results, resultChan,
                   resultClosed, cpc, received, ctxDone, auditFrame>>

\* checkLink: the HEAD request ends, or its 5 seconds pass
checkLink(w, outcome) ==
    /\ wpc[w] = "check"
    /\ wres' = [wres EXCEPT ![w] =
                  [Bookmark |-> wjob[w],
                   Status |-> IF heap[wjob[w]].URL = "" THEN "StatusDead" ELSE outcome]]
    /\ wpc' = [wpc EXCEPT ![w] = "store"]
    /\ UNCHANGED <<apc, collected, jobs, jobsClosed, wg, wjob, results, resultChan,
                   resultClosed, cpc, received, ctxDone, auditFrame>>

\* a.results[bookmark.ID] = result, under a.mu
workerStore(w) ==
    /\ wpc[w] = "store"
    /\ results' = (heap[wjob[w]].ID :> wres[w]) @@ results
    /\ wpc' = [wpc EXCEPT ![w] = "send"]
    /\ UNCHANGED <<apc, collected, jobs, jobsClosed, wg, wjob, wres, resultChan,
                   resultClosed, cpc, received, ctxDone, auditFrame>>

\* resultChan <- result, which waits while the channel is full
workerSend(w) ==
    /\ wpc[w] = "send"
    /\ Len(resultChan) < ResultChanCap
    /\ resultChan' = Append(resultChan, wres[w])
    /\ wpc' = [wpc EXCEPT ![w] = "range"]
    /\ UNCHANGED <<apc, collected, jobs, jobsClosed, wg, wjob, wres, results,
                   resultClosed, cpc, received, ctxDone, auditFrame>>

\* the consumer receives a result
consume ==
    /\ cpc = "range"
    /\ resultChan # <<>>
    /\ received' = Append(received, Head(resultChan))
    /\ resultChan' = Tail(resultChan)
    /\ UNCHANGED <<apc, collected, jobs, jobsClosed, wg, wpc, wjob, wres, results,
                   resultClosed, cpc, ctxDone, auditFrame>>

\* the channel is closed and empty: the consumer's loop ends
consumeEnd ==
    /\ cpc = "range"
    /\ resultChan = <<>>
    /\ resultClosed
    /\ cpc' = "done"
    /\ UNCHANGED <<apc, collected, jobs, jobsClosed, wg, wpc, wjob, wres, results,
                   resultChan, resultClosed, received, ctxDone, auditFrame>>

\* the context handed to AuditAll is cancelled
Cancel ==
    /\ apc # "idle"
    /\ ~ctxDone
    /\ ctxDone' = TRUE
    /\ UNCHANGED <<apc, collected, jobs, jobsClosed, wg, wpc, wjob, wres, results,
                   resultChan, resultClosed, cpc, received, auditFrame>>

Worker(w) ==
    \/ workerRange(w)
    \/ workerSelect(w)
    \/ \E outcome \in Statuses : checkLink(w, outcome)
    \/ workerStore(w)
    \/ workerSend(w)

Closer == auditCollect \/ auditFill \/ auditCloseJobs \/ auditSpawn \/ auditWait

Consumer == consume \/ consumeEnd

NextAudit ==
    \/ AuditAll
    \/ auditCollect
    \/ auditFill
    \/ auditCloseJobs
    \/ auditSpawn
    \/ auditWait
    \/ \E w \in 1..Workers : workerRange(w)
    \/ \E w \in 1..Workers : workerSelect(w)
    \/ \E w \in 1..Workers, outcome \in Statuses : checkLink(w, outcome)
    \/ \E w \in 1..Workers : workerStore(w)
    \/ \E w \in 1..Workers : workerSend(w)
    \/ consume
    \/ consumeEnd
    \/ Cancel

\* the program has loaded one of the source files; no store, scan or audit
InitAudit ==
    /\ origFile \in {DBFile(d) : d \in AuditDBs}
    /\ stagingFile = Absent
    /\ backupFile = Absent
    /\ conn = "nil"
    /\ pc = "idle"
    /\ goos = "linux"
    /\ procs = "none"
    /\ commitErr = "none"
    /\ mutErr = "none"
    /\ staged = 0
    /\ prevErr = "none"
    /\ guardSeen = FALSE
    /\ queryErr = FALSE
    /\ restoreErr = FALSE
    /\ removeErr = FALSE
    /\ origAtCreate = Absent
    /\ origAtCommit = Absent
    /\ stagedAtCommit = Absent
    /\ wroteBySwap = FALSE
    /\ wroteByRestore = FALSE
    /\ lastErr = "none"
    /\ lastCall = NoCall
    /\ heap = BuildTree(FetchAllBookmarks(origFile.db))
    /\ currentFolder \in Folders(heap)
    /\ bookmarks = getBookmarksForFolder(heap, currentFolder)
    /\ selectedBookmarks = {}
    /\ listCursor = 0
    /\ activePane = "TreePane"
    /\ editMode = "EditNone"
    /\ hasPendingChanges = FALSE
    /\ lastKey = NoKey
    /\ editStart = NoEdit
    /\ deletedNodes = {}
    /\ NewModelTree(heap)
    /\ InitScan
    /\ InitAuditor

\* every goroutine that can take a step takes one in the end: the goroutine
\* of AuditAll, each worker (a request ends or times out) and the consumer
AuditFairness ==
    /\ WF_vars(Closer)
    /\ \A w \in 1..Workers : WF_vars(Worker(w))
    /\ WF_vars(Consumer)

SpecAudit == InitAudit /\ [][NextAudit]_vars /\ AuditFairness

----------------------------------------------------------------------------
(* Properties of AuditAll *)

\* the bookmark nodes of the tree that have a URL
Auditable ==
    {x \in Reach(heap, {root}, Len(heap)) : heap[x].Type = TypeBookmark /\ heap[x].URL # ""}

\* resultChan is closed, the workers have returned and the consumer's loop is over
AuditFinished ==
    /\ resultClosed
    /\ \A w \in 1..Workers : wpc[w] = "done"
    /\ cpc = "done"

\* C30: AuditAll, called with a context that is not cancelled and a consumer
\* that drains the channel, delivers exactly one result for every bookmark node
\* with a URL, none for a folder, a separator or a bookmark without URL, each
\* with the status alive, dead or timed out, and then closes the channel: the
\* sequence is finite and every worker returns.
C30_AuditAll ==
    /\ [](\A i \in 1..Len(received) :
             /\ received[i].Bookmark \in Auditable
             /\ received[i].Status \in Statuses
             /\ \A j \in 1..Len(received) :
                   received[j].Bookmark = received[i].Bookmark => j = i)
    /\ []((cpc = "done" /\ ~ctxDone) =>
             \A x \in Auditable : \E i \in 1..Len(received) : received[i].Bookmark = x)
    /\ [](resultClosed => \A w \in 1..Workers : wpc[w] = "done")
    /\ (apc # "idle") ~> AuditFinished

\* an audit of a tree with two bookmarks with a URL and one without has ended:
\* two results, one of them a timeout
C30_Witness ==
    /\ AuditFinished
    /\ ~ctxDone
    /\ Len(received) = 2
    /\ \E i \in 1..Len(received) : received[i].Status = "StatusTimeout"
    /\ \E x \in Reach(heap, {root}, Len(heap)) :
          heap[x].Type = TypeBookmark /\ heap[x].URL = ""

----------------------------------------------------------------------------
(* Properties of FindDuplicates, on the files the mutation operations produce *)

\* the bookmark rows that refer to a URL record
Joined(db) == {b \in db.bookmarks : b.fk # NULL /\ \E p \in db.places : p.id = b.fk}

\* the rows that have the URL of the row b
SameURL(db, b) == {c \in Joined(db) : URLOf(db, c.fk) = URLOf(db, b.fk)}

----------------------------------------------------------------------------
(* Properties of the audit and the scan in the UI *)

\* C32: every audit started with the key a ends in the UI, whatever keys are
\* pressed meanwhile: auditInProgress is set only while an audit runs or its
\* auditCompleteMsg is on its way to Update, the message that resets it.
C32_AuditFinishes ==
    auditInProgress => (auditRunning > 0 \/ auditMsgs > 0)

\* Update has handled auditCompleteMsg: the audit is complete in the UI
AuditCompleted == auditMsgs' < auditMsgs /\ ~auditInProgress'

\* C33: when an audit completes, auditResults holds one entry for every
\* bookmark audited, DEAD for the status dead or timed out and OK otherwise, and
\* the number of dead links in the completion message is the number of
\* bookmarks audited whose result was dead or timed out.
C33_AuditResults ==
    [][AuditCompleted =>
          LET dead == {i \in 1..Len(auditSeen) :
                          auditSeen[i].Status \in {"StatusDead", "StatusTimeout"}}
          IN  /\ \A i \in 1..Len(auditSeen) :
                    /\ heap[auditSeen[i].Bookmark].ID \in DOMAIN auditResults'
                    /\ auditResults'[heap[auditSeen[i].Bookmark].ID]
                          = IF i \in dead THEN "DEAD" ELSE "OK"
              /\ auditReport' = Cardinality(dead)]_vars

\* a step in which Update handles a key
KeyStep == lastKey'.key # "none"

\* all that a key can change, but for the record of the key itself
modelState == <<storeVars, lastCall, heap, currentFolder, bookmarks, selectedBookmarks,
                listCursor, activePane, editMode, hasPendingChanges, collabVars>>

\* C34: while a duplicate scan runs (dedupScanning is true) a key leaves the
\* model unchanged, so that no Commit and no other operation of the store runs
\* while the command reads the source file; and when the result message of the
\* scan arrives dedupScanning is set to false.
C34_ScanBlocksKeys ==
    /\ [](dedupRunning > 0 => (dedupScanning /\ pc = "idle"))
    /\ [][(dedupScanning /\ KeyStep) => UNCHANGED modelState]_vars
    /\ [][Len(dedupMsgs') < Len(dedupMsgs) => ~dedupScanning']_vars

\* a key has been ignored while a scan runs and a store holds staged changes
C34_Witness ==
    /\ lastKey.key = "any"
    /\ dedupScanning
    /\ dedupRunning > 0
    /\ conn = "open"
    /\ hasPendingChanges

----------------------------------------------------------------------------
(* Properties of the UI session: the store held, pending changes, cursors *)

\* C35: while the program runs, a store is held (m.stagingDB is not nil)
\* whenever hasPendingChanges is true or the mode is EditTitle, EditURL,
\* AddTitle or AddURL: saveTitle, saveURL, saveNewBookmark and commitChanges
\* never find the store missing, whatever keys were pressed, commits and failed
\* CreateStaging calls included.
C35_StoreHeld ==
    (pc # "quit" /\ (hasPendingChanges \/ editMode \in InputModes)) => conn # "nil"

\* an edit goes on in a store whose Commit has failed, with changes pending
C35_Witness ==
    /\ pc = "idle"
    /\ editMode = "EditTitle"
    /\ hasPendingChanges
    /\ conn # "nil"
    /\ commitErr \notin {"none", "ok"}

MutationOps == {"UpdateBookmarkTitle", "UpdateBookmarkURL", "DeleteBookmark", "AddBookmark"}

\* a call of a mutation operation made in the step has returned nil
MutationSucceeded ==
    IF lastKey'.key = "d"
    THEN Calls(lastKey', "DeleteBookmark") /\ lastKey'.deleted # {}
    ELSE mutErr' = "ok" /\ \E op \in MutationOps : Calls(lastKey', op)

\* C36: hasPendingChanges is true only if a mutation of the store has succeeded
\* since the store was created or last committed: it becomes true only in a
\* step in which a mutation succeeds (not in a deleteSelected whose every
\* DeleteBookmark fails, nor in an edit that changes neither title nor URL).
C36_PendingOnlyAfterSuccess ==
    [][(hasPendingChanges' /\ ~hasPendingChanges) => MutationSucceeded]_vars


\* C37: cancelling an edit with Esc, in the title step or in the URL step,
\* leaves the title and the URL of the edited bookmark, in the tree and in the
\* staging copy, and hasPendingChanges as they were when e was pressed
C37_EscRestores ==
    [][(lastKey'.key = "esc" /\ editMode \in {"EditTitle", "EditURL"}
            /\ editStart.node # 0)
        => LET n == editStart.node
           IN  /\ heap'[n].Title = editStart.Title
               /\ heap'[n].URL = editStart.URL
               /\ CopyView(stagingFile', heap'[n]) = editStart.copy
               /\ hasPendingChanges' = editStart.pending]_vars


\* the bookmarks the list pane shows
Listed == {bookmarks[i] : i \in 1..Len(bookmarks)}

\* C38: a bookmark whose DeleteBookmark call succeeded is absent from the list
\* shown after deleteSelected and stays absent from its folder's list after any
\* later navigation in the session; a bookmark whose delete failed stays listed
C38_DeletedStayGone ==
    /\ [](Listed \cap deletedNodes = {})
    /\ [][lastKey'.key = "d"
            => \A b \in Listed :
                   (heap[b].ID \in selectedBookmarks /\ b \notin deletedNodes')
                       => b \in {bookmarks'[i] : i \in 1..Len(bookmarks')}]_vars


\* C39: the liveness guard fails open: when the process-list query fails or
\* the platform is unsupported the guard reports not running and Commit goes on
\* to release, backup and swap, none of which refuses it; Commit is refused as
\* locked only after a query that succeeded with a match.
C39_GuardFailsOpen ==
    [][/\ CommitCall =>
          /\ (goos \notin {"linux", "darwin", "windows"} \/ queryErr')
                => (~guardSeen' /\ pc' = "release" /\ commitErr' = "pending")
          /\ commitErr' = "locked"
                => (goos \in {"linux", "darwin", "windows"} /\ ~queryErr'
                    /\ procs # "none")
       /\ (pc \in {"release", "backup", "swap"} /\ queryErr) => commitErr' # "locked"]_vars

\* the query failed on a supported platform, and the commit went through with
\* the browser running
C39_Witness ==
    /\ Returned /\ commitErr = "ok" /\ queryErr /\ ~guardSeen
    /\ goos = "windows" /\ procs # "none"
    /\ origFile = stagedAtCommit /\ origFile # origAtCommit


----------------------------------------------------------------------------
(* Search, and the session that moves in a tree of nested folders *)

\* the characters of the strings searched and searched for
Letters(s) ==
    CASE s = ""     -> <<>>
      [] s = "t"    -> <<"t">>
      [] s = "t0"   -> <<"t", "0">>
      [] s = "t1"   -> <<"t", "1">>
      [] s = "T1"   -> <<"T", "1">>
      [] s = "u0"   -> <<"u", "0">>
      [] s = "u1"   -> <<"u", "1">>
      [] s = "wxyz" -> <<"w", "x", "y", "z">>

\* strings.ToLower
ToLower(cs) == [i \in 1..Len(cs) |-> IF cs[i] = "T" THEN "t" ELSE cs[i]]

\* strings.Contains
Contains(text, sub) ==
    \E i \in 0..(Len(text) - Len(sub)) : SubSeq(text, i + 1, i + Len(sub)) = sub

min(a, b, c) == IF a < b THEN (IF a < c THEN a ELSE c) ELSE (IF b < c THEN b ELSE c)

\* matrix[len(s1)][len(s2)] of levenshteinDistance, s1 and s2 lowered
RECURSIVE matrix(_, _)
matrix(s1, s2) ==
    IF Len(s1) = 0 THEN Len(s2)
    ELSE IF Len(s2) = 0 THEN Len(s1)
    ELSE LET a    == SubSeq(s1, 1, Len(s1) - 1)
             b    == SubSeq(s2, 1, Len(s2) - 1)
             cost == IF s1[Len(s1)] = s2[Len(s2)] THEN 0 ELSE 1
         IN  min(matrix(a, s2) + 1, matrix(s1, b) + 1, matrix(a, b) + cost)

levenshteinDistance(s1, s2) == matrix(ToLower(s1), ToLower(s2))

fuzzyMatch(query, text) ==
    LET q         == ToLower(query)
        t         == ToLower(text)
        distance  == levenshteinDistance(q, t)
        threshold == IF Len(q) \div 2 < 2 THEN 2 ELSE Len(q) \div 2
    IN  IF Contains(t, q) THEN 0
        ELSE IF distance <= threshold THEN distance
        ELSE -1

\* SearchBookmarks: search(node) and its loop over the children
RECURSIVE search(_, _, _)
RECURSIVE searchAll(_, _, _)
search(h, node, query) ==
    (IF /\ h[node].Type = TypeBookmark
        /\ \/ fuzzyMatch(Letters(query), Letters(h[node].Title)) >= 0
           \/ fuzzyMatch(Letters(query), Letters(h[node].URL)) >= 0
     THEN <<node>> ELSE <<>>)
    \o searchAll(h, h[node].Children, query)
searchAll(h, children, query) ==
    IF children = <<>> THEN <<>>
    ELSE search(h, Head(children), query) \o searchAll(h, Tail(children), query)

SearchBookmarks(h, query) == IF query = "" THEN <<>> ELSE search(h, root, query)

\* what is typed into the search field
Queries == {"", "T1", "wxyz"}

\* key /
enterSearchMode ==
    /\ InMainKeys
    /\ editMode' = "SearchMode"
    /\ inSearchMode' = FALSE
    /\ searchResults' = <<>>
    /\ KeyNav("/")
    /\ UNCHANGED <<treeNodes, treeCursor, expandedFolders>>
    /\ UNCHANGED <<storeVars, lastCall, heap, currentFolder, bookmarks, selectedBookmarks,
                   listCursor, activePane, hasPendingChanges>>

\* a key in SearchMode other than enter and esc; query is the text then in the field
searchKey(query) ==
    /\ pc = "idle"
    /\ editMode = "SearchMode"
    /\ searchResults' = SearchBookmarks(heap, query)
    /\ inSearchMode' = (query # "")
    /\ listCursor' = 0
    /\ KeyNav("type")
    /\ UNCHANGED <<treeNodes, treeCursor, expandedFolders>>
    /\ UNCHANGED <<storeVars, lastCall, heap, currentFolder, bookmarks, selectedBookmarks,
                   activePane, editMode, hasPendingChanges>>

\* key enter or esc in SearchMode
exitSearchMode ==
    /\ pc = "idle"
    /\ editMode = "SearchMode"
    /\ editMode' = "EditNone"
    /\ inSearchMode' = FALSE
    /\ searchResults' = <<>>
    /\ KeyNav("esc")
    /\ UNCHANGED <<treeNodes, treeCursor, expandedFolders>>
    /\ UNCHANGED <<storeVars, lastCall, heap, currentFolder, bookmarks, selectedBookmarks,
                   listCursor, activePane, hasPendingChanges>>

\* a source file with a folder in a folder and two bookmarks in one folder
NavDB ==
    [bookmarks |-> InitialDB.bookmarks \cup
        {[id |-> 4, type |-> TypeFolder, fk |-> NULL, parent |-> 2, position |-> 1,
          title |-> "toolbar", dateAdded |-> 0, lastModified |-> 0, guid |-> "toolbar_____"],
         [id |-> 5, type |-> TypeBookmark, fk |-> 2, parent |-> 2, position |-> 2,
          title |-> "t1", dateAdded |-> 0, lastModified |-> 0, guid |-> "rand"]},
     places |-> InitialDB.places \cup
        {[id |-> 2, url |-> "u1", title |-> "t1", last_visit_date |-> 0]}]

NavDBs == {InitialDB, NavDB}

InitNav ==
    /\ origFile \in {DBFile(d) : d \in NavDBs}
    /\ stagingFile = Absent
    /\ backupFile = Absent
    /\ conn = "nil"
    /\ pc = "idle"
    /\ goos = "linux"
    /\ procs = "none"
    /\ commitErr = "none"
    /\ mutErr = "none"
    /\ staged = 0
    /\ prevErr = "none"
    /\ guardSeen = FALSE
    /\ queryErr = FALSE
    /\ restoreErr = FALSE
    /\ removeErr = FALSE
    /\ origAtCreate = Absent
    /\ origAtCommit = Absent
    /\ stagedAtCommit = Absent
    /\ wroteBySwap = FALSE
    /\ wroteByRestore = FALSE
    /\ lastErr = "none"
    /\ lastCall = NoCall
    /\ heap = BuildTree(FetchAllBookmarks(origFile.db))
    /\ currentFolder \in (IF FindBookmarksBar(heap) # 0 THEN {FindBookmarksBar(heap)}
                          ELSE Folders(heap))
    /\ bookmarks = getBookmarksForFolder(heap, currentFolder)
    /\ selectedBookmarks = {}
    /\ listCursor = 0
    /\ activePane = "TreePane"
    /\ editMode = "EditNone"
    /\ hasPendingChanges = FALSE
    /\ lastKey = NoKey
    /\ editStart = NoEdit
    /\ deletedNodes = {}
    /\ NewModelTree(heap)
    /\ InitScan
    /\ InitAuditor

\* the keys with the store calls succeeding or the delete failing, and a
\* commit the browser does not refuse
NextNav ==
    \/ togglePane
    \/ cursorDown
    \/ cursorUp
    \/ toggleOrSelectFolder
    \/ enterEditMode("ok", TRUE)
    \/ enterAddMode("ok", TRUE)
    \/ KeyEsc
    \/ \E t \in Inputs(NewTitles) : saveTitle(t, FALSE)
    \/ saveURL("u1", FALSE)
    \/ saveNewTitle
    \/ \E failAt \in {"none", "commit"} : saveNewBookmark("t1", "u1", failAt)
    \/ toggleSelection
    \/ \E failing \in SUBSET selectedBookmarks : deleteSelected("ok", TRUE, failing)
    \/ KeyCtrlS(FALSE)
    \/ CommitRelease(FALSE) /\ NoKeyHandled
    \/ CommitBackup("ok") /\ NoKeyHandled
    \/ CommitSwap(TRUE) /\ NoKeyHandled
    \/ CommitCleanup(TRUE) /\ NoKeyHandled
    \/ commitChangesUI
    \/ enterSearchMode
    \/ \E query \in Queries : searchKey(query)
    \/ exitSearchMode

SpecNav == InitNav /\ [][NextNav]_vars

\* C40: whenever the list of the current folder is not empty the list cursor
\* is an index of it, and whenever the tree pane shows a folder the tree cursor
\* is an index of treeNodes, after every key and mutation (deletes, adds, a
\* folder collapsed, search mode left); no handler reads bookmarks[listCursor]
\* or treeNodes[treeCursor] outside the slice.
C40_CursorsInBounds ==
    /\ bookmarks # <<>> => (0 <= listCursor /\ listCursor < Len(bookmarks))
    /\ treeNodes # <<>> => (0 <= treeCursor /\ treeCursor < Len(treeNodes))
    /\ treeNodes = BuildFlatTree(heap, expandedFolders)

\* the folder under the tree cursor has been collapsed, the tree pane showing one
\* folder less, after a bookmark of a list of two was deleted
C40_Witness ==
    /\ lastKey.key = "enter" /\ activePane = "TreePane"
    /\ Len(treeNodes) = 1 /\ treeCursor = 0 /\ ~treeNodes[1].Expanded /\ treeNodes[1].HasKids
    /\ deletedNodes # {} /\ Len(bookmarks) = 2

====
